---------------------------- MODULE Spec2Model ----------------------------
(***************************************************************************)
(* Face-embedding store and search engine of flask-backend.                *)
(*                                                                         *)
(* Part 1: InsightFaceFaissService (insightface_faiss_service.py): one     *)
(* in-memory FAISS IndexFlatIP per event, ingest and match.                *)
(* Part 2: the descriptor cache, _LRUCache of face_recognition_advanced.py *)
(* and get_face_descriptors_from_url, alone and under the thread pool of   *)
(* batch_analyze_photos.                                                   *)
(* Part 3: compare_faces, find_matching_photos and the route match_faces. *)
(* Part 4: face detection, duplicate suppression and get_face_descriptor.  *)
(* Last, the normalisation step of Part 1 on vectors of every magnitude.   *)
(*                                                                         *)
(* Numbers.  float32 values are fixed-point integers with Scale units per  *)
(* 1.0; a vector is a sequence of such integers.  Identifiers are strings  *)
(* modelled as sequences of one-character strings, so that "#" can be      *)
(* searched for.                                                           *)
(***************************************************************************)
EXTENDS Integers, Sequences, FiniteSets, TLC

VARIABLES
    initialized,    \* InsightFaceFaissService.initialized
    heap,           \* the entry dicts {"index","ids","vectors"} ever created
    event_indices,  \* InsightFaceFaissService.event_indices: event_id -> ref into heap (0: absent)
    ret,            \* the last completed call of the sequential client: arguments and outcome
    th,             \* the request threads of the threaded server: position and locals
    descriptor_cache, \* AdvancedFaceRecognitionService.descriptor_cache: store and order
    now,            \* time.time()
    last_used       \* history: the cached keys, least recently set or read first

\* the variables of the descriptor cache
cacheVars == <<descriptor_cache, now, last_used>>

vars == <<initialized, heap, event_indices, ret, th, descriptor_cache, now, last_used>>

-----------------------------------------------------------------------------
(* Bounds of the model *)

\* total number of rows (faces) the store may hold over all events
MaxRows == 2

-----------------------------------------------------------------------------
(* float32 arithmetic in fixed point *)

\* units per 1.0
Scale == 1000

Abs(a) == IF a < 0 THEN -a ELSE a

\* Newton's iteration from a start at or above the root: the floor of the
\* square root of n
RECURSIVE SqrtFrom(_, _)
SqrtFrom(n, x) ==
    IF x = 0 THEN 0
    ELSE LET y == (x + n \div x) \div 2
         IN  IF y >= x THEN x ELSE SqrtFrom(n, y)

RECURSIVE SumAbs(_, _)
SumAbs(x, i) == IF i = 0 THEN 0 ELSE Abs(x[i]) + SumAbs(x, i - 1)

RECURSIVE SumSq(_, _)
SumSq(x, i) == IF i = 0 THEN 0 ELSE x[i] * x[i] + SumSq(x, i - 1)

\* np.linalg.norm(vec), in fixed-point units: the floor of the square root of
\* the sum of squares, searched for from the sum of the components down
Norm(x) == SqrtFrom(SumSq(x, Len(x)), SumAbs(x, Len(x)))

\* np.asarray(embedding, dtype=np.float32): integers to fixed point
AsArray(e) == [i \in 1..Len(e) |-> e[i] * Scale]

\* vec / (np.linalg.norm(vec) + 1e-8).  1e-8 is below the resolution of the
\* fixed point: it only keeps the division defined, 0 / 1e-8 = 0.
Normalize(x) ==
    LET n == Norm(x)
    IN  [i \in 1..Len(x) |-> IF n = 0 THEN 0 ELSE (x[i] * Scale) \div n]

RECURSIVE DotSum(_, _, _)
DotSum(a, b, i) == IF i = 0 THEN 0 ELSE a[i] * b[i] + DotSum(a, b, i - 1)

\* inner product of two fixed-point vectors of equal length
Dot(a, b) == DotSum(a, b, Len(a)) \div Scale

-----------------------------------------------------------------------------
(* Inputs *)

Events == {"e1", "e2"}

\* photo ids, as character sequences
PhotoIds == {<<"p">>, <<"q">>}

\* absent argument (Python None) of image_url
None == "None"

\* absent argument (Python None) of embedding; the empty list itself is not
\* among the inputs
NoEmbedding == <<>>

\* client-supplied embeddings (lists of numbers); the last has another length
Embeddings == {<<1, 0>>, <<0, 0, 2>>}

\* image URLs: unreachable, no face, one face, two faces
Urls == {"u_down", "u_noface", "u_one", "u_two"}

\* _download_image: whether the image behind the URL is obtained and decoded
DownloadImage(url) == url # "u_down"

\* the external model: the raw embeddings self.app.get(img) yields for the
\* image behind a URL, one per face
AppGet(url) ==
    CASE url = "u_one" -> << <<4, 3>> >>
      [] url = "u_two" -> << <<2, 0>>, <<0, 3>> >>
      [] OTHER         -> <<>>

\* queries; the last has another length
Queries == {<<1, 0>>, <<-2, 0>>, <<0, 0, 1>>}

\* top_k: fewer than the rows stored, and as many or more
TopKs == {1, 2}

\* threshold: the default 0.35, and -1.0, which every score passes
Thresholds == {350, -1000}

-----------------------------------------------------------------------------
(* Identifiers *)

\* str(i) for a face ordinal
OrdinalStr(i) == <<"0", "1", "2", "3", "4", "5", "6", "7", "8", "9">>[i + 1]

\* f"{photo_id}#{i}"
FaceId(photo_id, i) == photo_id \o <<"#", OrdinalStr(i)>>

RECURSIVE FirstHash(_, _)
FirstHash(id, i) ==
    IF i > Len(id) THEN 0
    ELSE IF id[i] = "#" THEN i
    ELSE FirstHash(id, i + 1)

\* id.split("#", 1)[0]
BaseId(id) ==
    LET h == FirstHash(id, 1)
    IN  IF h = 0 THEN id ELSE SubSeq(id, 1, h - 1)

-----------------------------------------------------------------------------
(* InsightFaceFaissService: embeddings *)

\* Face.normed_embedding of the external model
NormedEmbedding(raw) == Normalize(AsArray(raw))

\* compute_embeddings_from_url; the empty sequence stands for None
ComputeEmbeddingsFromUrl(url) ==
    IF ~DownloadImage(url) THEN <<>>
    ELSE LET faces == AppGet(url)
         IN  [i \in 1..Len(faces) |-> Normalize(NormedEmbedding(faces[i]))]

\* the embeddings of every URL, every client-supplied embedding normalised,
\* and every query as match prepares it (lines 215-216), each computed once
UrlVectors == [u \in Urls |-> ComputeEmbeddingsFromUrl(u)]
EmbeddingVector == [e \in Embeddings |-> Normalize(AsArray(e))]
QueryVector == [q \in Queries |-> Normalize(AsArray(q))]

\* ingest, lines 172-189: vectors_to_add (each a row of one matrix)
VectorsToAdd(image_url, embedding) ==
    IF embedding = NoEmbedding
    THEN UrlVectors[image_url]
    ELSE <<EmbeddingVector[embedding]>>

\* ids_to_add with the face ordinals counted from 1
IdsToAddFromOne(photo_id, image_url, embedding) ==
    IF embedding = NoEmbedding
    THEN [i \in 1..Len(UrlVectors[image_url]) |-> FaceId(photo_id, i)]
    ELSE <<photo_id>>

\* ingest, lines 172-189: ids_to_add
IdsToAdd(photo_id, image_url, embedding) ==
    IF embedding = NoEmbedding
    THEN [i \in 1..Len(UrlVectors[image_url]) |-> FaceId(photo_id, i - 1)]
    ELSE <<photo_id>>

-----------------------------------------------------------------------------
(* InsightFaceFaissService: the per-event entry *)

\* faiss.IndexFlatIP(dim): dimension d and the stored vectors xb
IndexFlatIP(dim) == [d |-> dim, xb |-> <<>>]

\* np.zeros((0, dim)): a matrix of given width and its rows
Zeros(dim) == [dim |-> dim, rows |-> <<>>]

\* the dict created by _get_or_create_index
NewEntry(dim) == [index |-> IndexFlatIP(dim), ids |-> <<>>, vectors |-> Zeros(dim)]

\* _get_or_create_index handing every event the one entry created first
GetOrCreateShared(h, ei, event_id, dim) ==
    IF Len(h) = 0
    THEN [heap |-> Append(h, NewEntry(dim)),
          event_indices |-> [ei EXCEPT ![event_id] = 1],
          ref |-> 1]
    ELSE [heap |-> h, event_indices |-> [ei EXCEPT ![event_id] = 1], ref |-> 1]

\* _get_or_create_index: the heap, the map and the entry's reference after it
GetOrCreateIndex(h, ei, event_id, dim) ==
    IF ei[event_id] = 0
    THEN [heap |-> Append(h, NewEntry(dim)),
          event_indices |-> [ei EXCEPT ![event_id] = Len(h) + 1],
          ref |-> Len(h) + 1]
    ELSE [heap |-> h, event_indices |-> ei, ref |-> ei[event_id]]

\* a vstack that accepts any width
VStackOkAlways(vectors, v) == TRUE

\* vectors = v in place of the vstack
VStackReplace(vectors, v) == [vectors EXCEPT !.rows = <<v>>]

\* np.vstack([vectors, v]) raises ValueError unless the widths agree
VStackOk(vectors, v) == Len(v) = vectors.dim
VStack(vectors, v) == [vectors EXCEPT !.rows = Append(@, v)]

\* index.add(v): the faiss wrapper asserts the dimension
IndexAddOk(index, v) == Len(v) = index.d
IndexAdd(index, v) == [index EXCEPT !.xb = Append(@, v)]

\* ids.append(pid)
IdsAppend(ids, pid) == Append(ids, pid)

\* ingest, lines 198-201: the loop from position i on, over the shared index
\* and ids and the local matrix; err names the exception that ended it
RECURSIVE AppendLoop(_, _, _, _, _, _)
AppendLoop(index, ids, vectors, vs, pids, i) ==
    IF i > Len(vs)
    THEN [index |-> index, ids |-> ids, vectors |-> vectors, err |-> None]
    ELSE IF ~VStackOk(vectors, vs[i])
    THEN [index |-> index, ids |-> ids, vectors |-> vectors, err |-> "ValueError"]
    ELSE IF ~IndexAddOk(index, vs[i])
    THEN [index |-> index, ids |-> ids, vectors |-> VStack(vectors, vs[i]),
          err |-> "AssertionError"]
    ELSE AppendLoop(IndexAdd(index, vs[i]), IdsAppend(ids, pids[i]),
                    VStack(vectors, vs[i]), vs, pids, i + 1)

\* ingest, lines 191-205, on an entry: entry["vectors"] is assigned only when
\* the loop ends without an exception
IngestEntry(entry, vs, pids) ==
    LET r == AppendLoop(entry.index, entry.ids, entry.vectors, vs, pids, 1)
    IN  [entry |-> [index |-> r.index, ids |-> r.ids,
                    vectors |-> IF r.err = None THEN r.vectors ELSE entry.vectors],
         err |-> r.err]

RECURSIVE RowsOf(_, _)
RowsOf(h, i) == IF i = 0 THEN 0 ELSE Len(h[i].index.xb) + RowsOf(h, i - 1)

\* rows held by all entries
TotalRows(h) == RowsOf(h, Len(h))

-----------------------------------------------------------------------------
(* InsightFaceFaissService.match *)

Min(a, b) == IF a <= b THEN a ELSE b
Max(a, b) == IF a >= b THEN a ELSE b

\* index.search asserts the query's dimension
IndexSearchOk(index, q) == Len(q) = index.d

\* the inner product of the query with stored row idx (from 0)
Score(index, q, idx) == Dot(index.xb[idx + 1], q)

\* index.search(q, k) of an exact inner-product index: every (D, I) it may
\* return, as a sequence of <<score, idx>>: the k best rows, best first, the
\* order among equal scores left to the library; -1 fills missing rows
IndexSearch(index, q, k) ==
    LET n  == Len(index.xb)
        kk == Min(k, n)
        sc == [j \in 0..(n - 1) |-> Score(index, q, j)]
        picks == {I \in [1..kk -> 0..(n - 1)] :
                    /\ \A a, b \in 1..kk : a < b => I[a] # I[b] /\ sc[I[a]] >= sc[I[b]]
                    /\ \A j \in 0..(n - 1) :
                          (\A a \in 1..kk : I[a] # j) => sc[I[kk]] >= sc[j]}
    IN  {[a \in 1..k |-> IF a <= kk THEN <<sc[I[a]], I[a]>>
                                    ELSE <<-(2 * Scale), -1>>] : I \in picks}

\* match, lines 219-228: the hits kept, in order; idx names an identifier
\* only if below len(ids) (else ids[idx] raises IndexError)
HitOk(ids, hit) == hit[2] < Len(ids)

\* a filter that forgets the threshold
KeepAll(hit, threshold) == hit[2] >= 0

Keep(hit, threshold) == hit[2] >= 0 /\ hit[1] >= threshold

\* the index error of ids[idx], if any kept hit has no identifier
IndexError(ids, hits, threshold) ==
    \E i \in 1..Len(hits) : Keep(hits[i], threshold) /\ ~HitOk(ids, hits[i])

\* the dict appended to results for a kept hit
Result(ids, hit) == [id |-> ids[hit[2] + 1], score |-> hit[1]]

RECURSIVE Results(_, _, _, _)
Results(ids, hits, threshold, i) ==
    IF i > Len(hits) THEN <<>>
    ELSE IF Keep(hits[i], threshold)
    THEN <<Result(ids, hits[i])>> \o Results(ids, hits, threshold, i + 1)
    ELSE Results(ids, hits, threshold, i + 1)

\* grouped.get(base_id, 0.0) on a dict kept as a sequence in insertion order
GroupedGet(grouped, base_id) ==
    IF \E j \in 1..Len(grouped) : grouped[j].id = base_id
    THEN grouped[CHOOSE j \in 1..Len(grouped) : grouped[j].id = base_id].score
    ELSE 0

\* grouped[base_id] = sc: a new key goes last, a present key keeps its place
GroupedSet(grouped, base_id, sc) ==
    IF \E j \in 1..Len(grouped) : grouped[j].id = base_id
    THEN [j \in 1..Len(grouped) |->
             IF grouped[j].id = base_id THEN [id |-> base_id, score |-> sc]
                                        ELSE grouped[j]]
    ELSE Append(grouped, [id |-> base_id, score |-> sc])

\* match, lines 230-233
RECURSIVE Grouped(_, _)
Grouped(results, i) ==
    IF i = 0 THEN <<>>
    ELSE LET g    == Grouped(results, i - 1)
             base == BaseId(results[i].id)
         IN  GroupedSet(g, base, Max(GroupedGet(g, base), results[i].score))

\* list.sort(key=score, reverse=True): stable, by insertion
RECURSIVE InsertDesc(_, _)
InsertDesc(sorted, x) ==
    IF sorted = <<>> THEN <<x>>
    ELSE IF Head(sorted).score >= x.score
    THEN <<Head(sorted)>> \o InsertDesc(Tail(sorted), x)
    ELSE <<x>> \o sorted

RECURSIVE SortDesc(_, _)
SortDesc(list, i) ==
    IF i = 0 THEN <<>> ELSE InsertDesc(SortDesc(list, i - 1), list[i])

\* match, lines 229-237: group by base id, sort by score
GroupSort(results) ==
    LET grouped == Grouped(results, Len(results))
    IN  SortDesc(grouped, Len(grouped))

\* match, lines 219-237, from the hits of the search to the returned list
Deduped(ids, hits, threshold) == GroupSort(Results(ids, hits, threshold, 1))

\* the early return without the test for None
NothingToSearchKnown(h, ei, event_id) ==
    ei[event_id] # 0 /\ Len(h[ei[event_id]].ids) = 0

\* match, lines 210-212: nothing to search
NothingToSearch(h, ei, event_id) ==
    ei[event_id] = 0 \/ Len(h[ei[event_id]].ids) = 0

-----------------------------------------------------------------------------
(* The service used by one client at a time *)

\* a request thread before its request arrives
Idle == [pc |-> "idle"]

\* the request threads (app.run(threaded=True): one thread per request)
ThreadIds == {"t1", "t2", "t3"}

Init ==
    /\ initialized = FALSE
    /\ heap = <<>>
    /\ event_indices = [e \in Events |-> 0]
    /\ ret = [op |-> "none"]
    /\ th = [t \in ThreadIds |-> Idle]
    /\ descriptor_cache = [store |-> [k \in {} |-> 0], order |-> <<>>]
    /\ now = 0
    /\ last_used = <<>>

\* InsightFaceFaissService.ingest(event_id, photo_id, image_url, embedding)
Ingest(event_id, photo_id, image_url, embedding) ==
    /\ initialized' = TRUE
    /\ UNCHANGED th
    /\ UNCHANGED cacheVars
    /\ IF embedding = NoEmbedding /\ image_url = None
       THEN /\ ret' = [op |-> "ingest", event_id |-> event_id, photo_id |-> photo_id,
                       image_url |-> image_url, embedding |-> embedding,
                       out |-> "ValueError"]
            /\ UNCHANGED <<heap, event_indices>>
       ELSE LET vs   == VectorsToAdd(image_url, embedding)
                pids == IdsToAdd(photo_id, image_url, embedding)
            IN  IF embedding = NoEmbedding /\ Len(vs) = 0
                THEN /\ ret' = [op |-> "ingest", event_id |-> event_id,
                                photo_id |-> photo_id, image_url |-> image_url,
                                embedding |-> embedding, out |-> "False"]
                     /\ UNCHANGED <<heap, event_indices>>
                ELSE LET g == GetOrCreateIndex(heap, event_indices, event_id, Len(vs[1]))
                         r == IngestEntry(g.heap[g.ref], vs, pids)
                     IN  /\ r.err = None => TotalRows(heap) + Len(vs) <= MaxRows
                         /\ heap' = [g.heap EXCEPT ![g.ref] = r.entry]
                         /\ event_indices' = g.event_indices
                         /\ ret' = [op |-> "ingest", event_id |-> event_id,
                                    photo_id |-> photo_id, image_url |-> image_url,
                                    embedding |-> embedding,
                                    out |-> IF r.err = None THEN "True" ELSE r.err]

\* InsightFaceFaissService.match(event_id, query_embedding, top_k, threshold)
Match(event_id, query_embedding, top_k, threshold) ==
    /\ initialized' = TRUE
    /\ UNCHANGED <<heap, event_indices, th>>
    /\ UNCHANGED cacheVars
    /\ IF NothingToSearch(heap, event_indices, event_id)
       THEN ret' = [op |-> "match", event_id |-> event_id,
                    query_embedding |-> query_embedding, top_k |-> top_k,
                    threshold |-> threshold, out |-> "ok", hits |-> <<>>,
                    result |-> <<>>]
       ELSE IF event_indices[event_id] = 0
       THEN \* entry is None and entry["index"] raises
            ret' = [op |-> "match", event_id |-> event_id,
                    query_embedding |-> query_embedding, top_k |-> top_k,
                    threshold |-> threshold, out |-> "TypeError", hits |-> <<>>,
                    result |-> <<>>]
       ELSE LET entry == heap[event_indices[event_id]]
                q     == QueryVector[query_embedding]
            IN  IF ~IndexSearchOk(entry.index, q)
                THEN ret' = [op |-> "match", event_id |-> event_id,
                             query_embedding |-> query_embedding, top_k |-> top_k,
                             threshold |-> threshold, out |-> "AssertionError",
                             hits |-> <<>>, result |-> <<>>]
                ELSE \E hits \in IndexSearch(entry.index, q, Min(top_k, Len(entry.ids))) :
                        LET raised == IndexError(entry.ids, hits, threshold)
                        IN  ret' = [op |-> "match", event_id |-> event_id,
                                    query_embedding |-> query_embedding,
                                    top_k |-> top_k, threshold |-> threshold,
                                    hits |-> hits,
                                    out |-> IF raised THEN "IndexError" ELSE "ok",
                                    result |-> IF raised THEN <<>>
                                               ELSE Deduped(entry.ids, hits, threshold)]

IngestCall ==
    \E e \in Events, p \in PhotoIds :
        \/ \E u \in Urls \cup {None} : Ingest(e, p, u, NoEmbedding)
        \/ \E v \in Embeddings : Ingest(e, p, None, v)

MatchCall ==
    \E e \in Events, q \in Queries, k \in TopKs, t \in Thresholds : Match(e, q, k, t)

Next == IngestCall \/ MatchCall

Spec == Init /\ [][Next]_vars

-----------------------------------------------------------------------------
(* Properties of the service used by one client at a time *)

\* the event has an entry
Known(e) == event_indices[e] # 0

\* the entry of a known event
EntryOf(e) == heap[event_indices[e]]

\* the identifiers stored for an event
IdsOf(e) == IF Known(e) THEN EntryOf(e).ids ELSE <<>>

\* the step is a call of ingest, of match
IngestStep == ret'.op = "ingest"
MatchStep == ret'.op = "match"

RECURSIVE Better(_, _, _, _)
\* number of rows of the index that score strictly above s
Better(index, q, s, j) ==
    IF j = 0 THEN 0
    ELSE (IF Score(index, q, j - 1) > s THEN 1 ELSE 0) + Better(index, q, s, j - 1)

\* C1: after any sequence of ingest calls (returning True or False, or
\* raising), every entry's identifier list is as long as its vector matrix has
\* rows and as its index holds vectors.
C1_ParallelLengths ==
    \A i \in 1..Len(heap) :
        /\ Len(heap[i].ids) = Len(heap[i].vectors.rows)
        /\ Len(heap[i].ids) = Len(heap[i].index.xb)

\* C1 witness: an ingest raised on a store that holds rows
C1_Witness ==
    /\ ret.op = "ingest" /\ ret.out = "ValueError"
    /\ Known(ret.event_id)
    /\ Len(EntryOf(ret.event_id).ids) >= 2

\* C2 (as claimed): match returns at most one result per base id, and its
\* score is the maximum score among the retrieved entries of that base id
\* that passed the threshold.
C2_MaxScorePerBase ==
    (ret.op = "match" /\ ret.out = "ok") =>
        LET ids  == IdsOf(ret.event_id)
            kept == {i \in 1..Len(ret.hits) :
                        ret.hits[i][2] >= 0 /\ ret.hits[i][1] >= ret.threshold}
            of(b) == {i \in kept : BaseId(ids[ret.hits[i][2] + 1]) = b}
        IN  /\ \A a, b \in 1..Len(ret.result) :
                   a # b => ret.result[a].id # ret.result[b].id
            /\ \A a \in 1..Len(ret.result) :
                   /\ \E i \in of(ret.result[a].id) : ret.hits[i][1] = ret.result[a].score
                   /\ \A i \in of(ret.result[a].id) : ret.hits[i][1] <= ret.result[a].score

\* C3: every item match returns is the base id of a stored entry of the event
\* that scores at least the threshold and has fewer than top_k entries scoring
\* strictly above it; the result has at most top_k items.
C3_ResultsFromTopK ==
    (ret.op = "match" /\ ret.out = "ok") =>
        LET ids == IdsOf(ret.event_id)
            q   == Normalize(AsArray(ret.query_embedding))
        IN  /\ Len(ret.result) <= ret.top_k
            /\ \A a \in 1..Len(ret.result) :
                   \E j \in 1..Len(ids) :
                       LET index == EntryOf(ret.event_id).index
                           s     == Score(index, q, j - 1)
                       IN  /\ BaseId(ids[j]) = ret.result[a].id
                           /\ s >= ret.threshold
                           /\ Better(index, q, s, Len(index.xb)) < ret.top_k

\* C3 witness: top_k cut off an entry that passes the threshold
C3_Witness ==
    /\ ret.op = "match" /\ ret.out = "ok"
    /\ Len(ret.result) = 1
    /\ ret.top_k = 1
    /\ Len(IdsOf(ret.event_id)) = 2
    /\ BaseId(IdsOf(ret.event_id)[1]) # BaseId(IdsOf(ret.event_id)[2])
    /\ \A j \in 0..1 :
          Score(EntryOf(ret.event_id).index, Normalize(AsArray(ret.query_embedding)), j)
             >= ret.threshold

\* the vectors an ingest call offers are of another length than the event's index
Mismatch(call) ==
    /\ Known(call.event_id)
    /\ \/ call.embedding # NoEmbedding
          /\ Len(call.embedding) # EntryOf(call.event_id).index.d
       \/ call.embedding = NoEmbedding /\ call.image_url # None
          /\ DownloadImage(call.image_url) /\ Len(AppGet(call.image_url)) > 0
          /\ Len(AppGet(call.image_url)[1]) # EntryOf(call.event_id).index.d

\* C4: an ingest of a vector whose length differs from the event's
\* dimensionality raises (numpy's ValueError), and leaves the identifier list,
\* the matrix with its width, and the index as they were.
C4_MismatchRejected ==
    [][(IngestStep /\ Mismatch(ret')) =>
          /\ ret'.out = "ValueError"
          /\ heap' = heap
          /\ event_indices' = event_indices]_vars

\* C4 witness: an ingest of another length was rejected
C4_Witness ==
    /\ ret.op = "ingest" /\ ret.out = "ValueError"
    /\ Mismatch(ret)
    /\ Len(EntryOf(ret.event_id).ids) >= 1

\* C5, first part: a successful ingest of n vectors adds n rows and n
\* identifiers at the end and changes no stored row or identifier.
C5_AppendOnly ==
    [][(IngestStep /\ ret'.out = "True") =>
          LET e   == ret'.event_id
              old == IF Known(e) THEN EntryOf(e)
                     ELSE [index |-> [xb |-> <<>>], ids |-> <<>>, vectors |-> [rows |-> <<>>]]
              new == heap'[event_indices'[e]]
              n   == Len(new.ids) - Len(old.ids)
          IN  /\ n >= 1
              /\ n = IF ret'.embedding # NoEmbedding THEN 1
                     ELSE Len(AppGet(ret'.image_url))
              /\ Len(new.index.xb) = Len(old.index.xb) + n
              /\ Len(new.vectors.rows) = Len(old.vectors.rows) + n
              /\ SubSeq(new.ids, 1, Len(old.ids)) = old.ids
              /\ SubSeq(new.index.xb, 1, Len(old.index.xb)) = old.index.xb
              /\ SubSeq(new.vectors.rows, 1, Len(old.vectors.rows)) = old.vectors.rows]_vars

\* C5 (as claimed), second part: when the same photo id was ingested twice
\* with one face each, the event holds two rows and a match that retrieves
\* both above the threshold returns one result for it, with the higher score.
C5_SameIdTwiceHigherScore ==
    (/\ ret.op = "match" /\ ret.out = "ok"
     /\ Len(IdsOf(ret.event_id)) = 2
     /\ BaseId(IdsOf(ret.event_id)[1]) = BaseId(IdsOf(ret.event_id)[2])
     /\ IdsOf(ret.event_id)[2] # FaceId(BaseId(IdsOf(ret.event_id)[2]), 1)
     /\ Len(ret.hits) = 2
     /\ ret.hits[1][1] >= ret.threshold /\ ret.hits[2][1] >= ret.threshold)
    => /\ Len(ret.result) = 1
       /\ ret.result[1].id = BaseId(IdsOf(ret.event_id)[1])
       /\ ret.result[1].score = Max(ret.hits[1][1], ret.hits[2][1])

\* the identifiers added by the ingest call that just returned True
Added(call, n) ==
    SubSeq(IdsOf(call.event_id), Len(IdsOf(call.event_id)) - n + 1,
           Len(IdsOf(call.event_id)))

\* the number of vectors the ingest call contributed
Contributed(call) ==
    IF call.embedding # NoEmbedding THEN 1 ELSE Len(AppGet(call.image_url))

\* C6 (as claimed): the identifier stored is the bare item id when the ingest
\* contributes one vector and item_id#ordinal when it contributes more, on
\* both paths.
C6_BareIdForOneVector ==
    (ret.op = "ingest" /\ ret.out = "True") =>
        LET n == Contributed(ret)
        IN  Added(ret, n) =
               IF n = 1 THEN <<ret.photo_id>>
               ELSE [i \in 1..n |-> ret.photo_id \o <<"#", OrdinalStr(i - 1)>>]

\* C6 (amended): on the image-URL path every vector is stored as
\* item_id#ordinal (ordinal from 0), also when the image has one face; on the
\* client-supplied-vector path the one vector is stored under the bare item id.
C6_IdsByPath ==
    (ret.op = "ingest" /\ ret.out = "True") =>
        LET n == Contributed(ret)
        IN  Added(ret, n) =
               IF ret.embedding # NoEmbedding THEN <<ret.photo_id>>
               ELSE [i \in 1..n |-> ret.photo_id \o <<"#", OrdinalStr(i - 1)>>]

\* C6 witness: an image with one face was ingested by URL
C6_Witness ==
    /\ ret.op = "ingest" /\ ret.out = "True"
    /\ ret.embedding = NoEmbedding
    /\ Contributed(ret) = 1
    /\ IdsOf(ret.event_id)[Len(IdsOf(ret.event_id))] = ret.photo_id \o <<"#", "0">>

\* C7: match on an event never ingested into, or holding no entry, returns
\* the empty list and raises nothing, whatever the query, top_k and threshold.
C7_EmptyScopeEmptyResult ==
    (ret.op = "match" /\ Len(IdsOf(ret.event_id)) = 0) =>
        ret.out = "ok" /\ ret.result = <<>>

\* C7 witness: a query of another length on an unknown event, while another
\* event holds entries
C7_Witness ==
    /\ ret.op = "match" /\ ~Known(ret.event_id)
    /\ ret.out = "ok" /\ ret.result = <<>>
    /\ \E e \in Events : Known(e) /\ EntryOf(e).index.d # Len(ret.query_embedding)

\* C8: an ingest changes no other event's entry; a match changes no entry and
\* creates none; every item a match returns is the base id of an identifier
\* stored for the event searched.
C8_ScopesIsolated ==
    [][/\ IngestStep =>
            \A e \in Events \ {ret'.event_id} :
                /\ event_indices'[e] = event_indices[e]
                /\ Known(e) => heap'[event_indices[e]] = heap[event_indices[e]]
       /\ MatchStep =>
            /\ heap' = heap /\ event_indices' = event_indices
            /\ \A a \in 1..Len(ret'.result) :
                   \E j \in 1..Len(IdsOf(ret'.event_id)) :
                       BaseId(IdsOf(ret'.event_id)[j]) = ret'.result[a].id]_vars

\* C8 witness: both events hold entries, and a match on one returned a photo
\* that the other does not hold
C8_Witness ==
    /\ ret.op = "match" /\ ret.out = "ok" /\ Len(ret.result) = 1
    /\ \A e \in Events : Known(e) /\ Len(EntryOf(e).ids) >= 1
    /\ \E e \in Events \ {ret.event_id} :
          \A j \in 1..Len(IdsOf(e)) : BaseId(IdsOf(e)[j]) # ret.result[1].id

-----------------------------------------------------------------------------
(* The service under the threaded server: each request runs ingest or match *)
(* on a thread of its own, statement by statement, with no lock            *)

\* the requests the threads serve: all on one event
ThreadEvents == {"e1"}
ThreadUrls == {"u_two"}
ThreadEmbeddings == {<<1, 0>>}
ThreadQueries == {<<1, 0>>}
ThreadTopKs == {1, 20}
ThreadThresholds == {350}

\* the thread's call ended
Done(t, out, result) ==
    th' = [th EXCEPT ![t] = [pc |-> "done", op |-> th[t].op, out |-> out,
                             event_id |-> th[t].event_id, result |-> result]]

\* ingest, lines 170-189 (on the thread's own data), and line 162 of
\* _get_or_create_index: entry = self.event_indices.get(event_id)
TIngestBegin(t, event_id, photo_id, image_url, embedding) ==
    /\ th[t].pc = "idle"
    /\ initialized' = TRUE
    /\ UNCHANGED <<heap, event_indices, ret>>
    /\ UNCHANGED cacheVars
    /\ LET vs == VectorsToAdd(image_url, embedding)
       IN  IF embedding = NoEmbedding /\ Len(vs) = 0
           THEN th' = [th EXCEPT ![t] = [pc |-> "done", op |-> "ingest", out |-> "False",
                                         event_id |-> event_id, result |-> <<>>]]
           ELSE th' = [th EXCEPT ![t] =
                         [pc |-> IF event_indices[event_id] = 0 THEN "create" ELSE "bind",
                          op |-> "ingest", event_id |-> event_id,
                          vs |-> vs, pids |-> IdsToAdd(photo_id, image_url, embedding),
                          ref |-> event_indices[event_id]]]

\* _get_or_create_index, lines 164-165: the entry is None, a new one is stored
TCreate(t) ==
    /\ th[t].pc = "create"
    /\ heap' = Append(heap, NewEntry(Len(th[t].vs[1])))
    /\ event_indices' = [event_indices EXCEPT ![th[t].event_id] = Len(heap) + 1]
    /\ th' = [th EXCEPT ![t].pc = "reread"]
    /\ UNCHANGED <<initialized, ret>>
    /\ UNCHANGED cacheVars

\* _get_or_create_index, line 166: entry = self.event_indices[event_id]
TReread(t) ==
    /\ th[t].pc = "reread"
    /\ th' = [th EXCEPT ![t].pc = "bind", ![t].ref = event_indices[th[t].event_id]]
    /\ UNCHANGED <<initialized, heap, event_indices, ret>>
    /\ UNCHANGED cacheVars

\* ingest, lines 193-195: index and ids name the entry's objects, vectors is
\* the matrix the entry holds now
TBind(t) ==
    /\ th[t].pc = "bind"
    /\ th' = [th EXCEPT ![t] = [pc |-> "add", op |-> "ingest",
                                event_id |-> th[t].event_id, vs |-> th[t].vs,
                                pids |-> th[t].pids, ref |-> th[t].ref,
                                vectors |-> heap[th[t].ref].vectors, i |-> 1]]
    /\ UNCHANGED <<initialized, heap, event_indices, ret>>
    /\ UNCHANGED cacheVars

\* ingest, lines 199-200: vectors = np.vstack([vectors, v]); index.add(v)
TAdd(t) ==
    /\ th[t].pc = "add"
    /\ UNCHANGED <<initialized, event_indices, ret>>
    /\ UNCHANGED cacheVars
    /\ LET v == th[t].vs[th[t].i]
       IN  IF ~VStackOk(th[t].vectors, v)
           THEN Done(t, "ValueError", <<>>) /\ UNCHANGED heap
           ELSE IF ~IndexAddOk(heap[th[t].ref].index, v)
           THEN Done(t, "AssertionError", <<>>) /\ UNCHANGED heap
           ELSE /\ heap' = [heap EXCEPT ![th[t].ref].index = IndexAdd(@, v)]
                /\ th' = [th EXCEPT ![t].pc = "append",
                                    ![t].vectors = VStack(@, v)]

\* ingest, line 201: ids.append(pid), and the loop's next round
TAppend(t) ==
    /\ th[t].pc = "append"
    /\ heap' = [heap EXCEPT ![th[t].ref].ids = IdsAppend(@, th[t].pids[th[t].i])]
    /\ th' = [th EXCEPT ![t].i = @ + 1,
                        ![t].pc = IF th[t].i + 1 > Len(th[t].vs) THEN "store" ELSE "add"]
    /\ UNCHANGED <<initialized, event_indices, ret>>
    /\ UNCHANGED cacheVars

\* ingest, lines 203-205: entry["vectors"] = vectors; return True
TStore(t) ==
    /\ th[t].pc = "store"
    /\ heap' = [heap EXCEPT ![th[t].ref].vectors = th[t].vectors]
    /\ th' = [th EXCEPT ![t] = [pc |-> "done", op |-> "ingest", out |-> "True",
                                event_id |-> th[t].event_id, result |-> <<>>,
                                vs |-> th[t].vs]]
    /\ UNCHANGED <<initialized, event_indices, ret>>
    /\ UNCHANGED cacheVars

\* match, line 210: entry = self.event_indices.get(event_id)
TMatchBegin(t, event_id, query_embedding, top_k, threshold) ==
    /\ th[t].pc = "idle"
    /\ initialized' = TRUE
    /\ UNCHANGED <<heap, event_indices, ret>>
    /\ UNCHANGED cacheVars
    /\ IF event_indices[event_id] = 0
       THEN th' = [th EXCEPT ![t] = [pc |-> "done", op |-> "match", out |-> "ok",
                                     event_id |-> event_id, result |-> <<>>]]
       ELSE th' = [th EXCEPT ![t] = [pc |-> "m_len", op |-> "match",
                                     event_id |-> event_id,
                                     q |-> QueryVector[query_embedding],
                                     top_k |-> top_k, threshold |-> threshold,
                                     ref |-> event_indices[event_id]]]

\* match, lines 211-212: len(entry["ids"]) == 0
TMatchLen(t) ==
    /\ th[t].pc = "m_len"
    /\ UNCHANGED <<initialized, heap, event_indices, ret>>
    /\ UNCHANGED cacheVars
    /\ IF Len(heap[th[t].ref].ids) = 0
       THEN Done(t, "ok", <<>>)
       ELSE th' = [th EXCEPT ![t].pc = "m_k"]

\* match, line 218, the argument min(top_k, len(ids))
TMatchK(t) ==
    /\ th[t].pc = "m_k"
    /\ UNCHANGED <<initialized, heap, event_indices, ret>>
    /\ UNCHANGED cacheVars
    /\ th' = [th EXCEPT ![t] = [pc |-> "m_search", op |-> "match",
                                event_id |-> th[t].event_id, q |-> th[t].q,
                                threshold |-> th[t].threshold, ref |-> th[t].ref,
                                k |-> Min(th[t].top_k, Len(heap[th[t].ref].ids))]]

\* match, line 218: index.search
TMatchSearch(t) ==
    /\ th[t].pc = "m_search"
    /\ UNCHANGED <<initialized, heap, event_indices, ret>>
    /\ UNCHANGED cacheVars
    /\ IF ~IndexSearchOk(heap[th[t].ref].index, th[t].q)
       THEN Done(t, "AssertionError", <<>>)
       ELSE \E hits \in IndexSearch(heap[th[t].ref].index, th[t].q, th[t].k) :
               th' = [th EXCEPT ![t] = [pc |-> "m_read", op |-> "match",
                                        event_id |-> th[t].event_id,
                                        threshold |-> th[t].threshold,
                                        ref |-> th[t].ref, hits |-> hits,
                                        i |-> 1, results |-> <<>>]]

\* match, lines 220-228, one round of the loop: ids[idx] is read now; after
\* the last round, lines 229-237
TMatchRead(t) ==
    /\ th[t].pc = "m_read"
    /\ UNCHANGED <<initialized, heap, event_indices, ret>>
    /\ UNCHANGED cacheVars
    /\ LET hit  == th[t].hits[th[t].i]
           ids  == heap[th[t].ref].ids
           keep == Keep(hit, th[t].threshold)
           results == IF keep THEN Append(th[t].results, Result(ids, hit))
                      ELSE th[t].results
       IN  IF keep /\ ~HitOk(ids, hit)
           THEN Done(t, "IndexError", <<>>)
           ELSE IF th[t].i = Len(th[t].hits)
           THEN Done(t, "ok", GroupSort(results))
           ELSE th' = [th EXCEPT ![t].i = @ + 1, ![t].results = results]

TIngestCall ==
    \E t \in ThreadIds, e \in ThreadEvents, p \in PhotoIds :
        \/ \E u \in ThreadUrls : TIngestBegin(t, e, p, u, NoEmbedding)
        \/ \E v \in ThreadEmbeddings : TIngestBegin(t, e, p, None, v)

TMatchCall ==
    \E t \in ThreadIds, e \in ThreadEvents, q \in ThreadQueries,
       k \in ThreadTopKs, r \in ThreadThresholds : TMatchBegin(t, e, q, k, r)

TStep ==
    \E t \in ThreadIds :
        \/ TCreate(t) \/ TReread(t) \/ TBind(t) \/ TAdd(t) \/ TAppend(t) \/ TStore(t)
        \/ TMatchLen(t) \/ TMatchK(t) \/ TMatchSearch(t) \/ TMatchRead(t)

NextThreaded == TIngestCall \/ TMatchCall \/ TStep

SpecThreaded == Init /\ [][NextThreaded]_vars

-----------------------------------------------------------------------------
(* Properties of the service under the threaded server *)

\* no ingest is under way
NoIngestRunning ==
    \A t \in ThreadIds : th[t].pc \in {"idle", "done"} \/ th[t].op = "match"

RECURSIVE Stored(_, _)
\* the number of vectors of the ingest calls on event e that returned True
Stored(e, ts) ==
    IF ts = {} THEN 0
    ELSE LET t == CHOOSE x \in ts : TRUE
         IN  (IF th[t].pc = "done" /\ th[t].op = "ingest" /\ th[t].out = "True"
                 /\ th[t].event_id = e
              THEN Len(th[t].vs) ELSE 0) + Stored(e, ts \ {t})

\* C9 (as claimed): concurrent ingest calls on one event are serialized: once
\* they have returned, all their vectors are stored, and the identifier list,
\* the matrix and the index of the event have the same length.
C9_ConcurrentIngestsSerialized ==
    NoIngestRunning =>
        \A e \in Events :
            Stored(e, ThreadIds) > 0 =>
                /\ Known(e)
                /\ Len(EntryOf(e).ids) = Stored(e, ThreadIds)
                /\ Len(EntryOf(e).vectors.rows) = Len(EntryOf(e).ids)
                /\ Len(EntryOf(e).index.xb) = Len(EntryOf(e).ids)

\* C10 (as claimed): a match running while an ingest on the same event is
\* under way finds an identifier for every position the index returns: it
\* never fails on an entry added to the index but not yet to the identifiers.
C10_SearchSeesConsistentSnapshot ==
    \A t \in ThreadIds :
        (th[t].pc = "done" /\ th[t].op = "match") => th[t].out # "IndexError"

-----------------------------------------------------------------------------
(* Part 2: AdvancedFaceRecognitionService (face_recognition_advanced.py).  *)
(* The descriptor cache: _LRUCache, keyed by image URL.                    *)

\* the variables of the embedding store
storeVars == <<initialized, heap, event_indices>>

\* capacity of the cache: entries it holds (the service constructs it with 2000)
Capacity == 2

\* ttl_seconds of the cache: seconds an entry lives (the service: 3600)
Ttl == 1

\* the clock stops at MaxNow
MaxNow == 2

\* image URLs: unreachable; no face; a face without encoding; one, two and
\* three faces
AdvUrls == {"a_down", "a_noface", "a_noenc", "a_one", "a_two", "a_three"}

\* the URLs used as keys by the client of the cache
CacheUrls == {"a_down", "a_noface", "a_noenc", "a_two"}

\* get returns None
NoValue == <<>>

\* load_image_from_url(image_url) is not None
LoadImageFromUrl(url) == url # "a_down"

\* len(self._detect_faces_multiple_methods(image_rgb))
DetectFaces(url) ==
    CASE url = "a_noenc" -> 1
      [] url = "a_one"   -> 1
      [] url = "a_two"   -> 2
      [] url = "a_three" -> 3
      [] OTHER           -> 0

\* [encoding.tolist() for encoding in face_recognition.face_encodings(...)]:
\* one descriptor for each face that could be encoded
FaceEncodings(url) ==
    CASE url = "a_one"   -> << <<300, 400>> >>
      [] url = "a_two"   -> << <<600, 0>>, <<0, 800>> >>
      [] url = "a_three" -> << <<0, 0>>, <<600, 0>>, <<0, 800>> >>
      [] OTHER           -> <<>>

\* values a client stores under a key by set
CacheValues == {<< <<1200, 0>> >>}

\* dict.pop(k, None) and d[k] = v
DictPop(d, k) == [x \in DOMAIN d \ {k} |-> d[x]]
DictSet(d, k, v) == [x \in DOMAIN d \cup {k} |-> IF x = k THEN v ELSE d[x]]

\* x in list
In(list, x) == \E i \in DOMAIN list : list[i] = x

\* list.remove(x), x in list: the first occurrence goes
ListRemove(list, x) ==
    LET i == CHOOSE j \in DOMAIN list :
                 list[j] = x /\ \A h \in 1..(j - 1) : list[h] # x
    IN  SubSeq(list, 1, i - 1) \o SubSeq(list, i + 1, Len(list))

\* an entry that lives up to and without the last second of its ttl
LiveStrict(ts, t) == t - ts < Ttl

\* get, line 31: now - ts <= self.ttl
Live(ts, t) == t - ts <= Ttl

\* a read that leaves the order as it is
RefreshNot(order, key) == order

\* get, lines 33-35: the key moves to the end of the order
Refresh(order, key) ==
    Append(IF In(order, key) THEN ListRemove(order, key) ELSE order, key)

\* a delete that leaves the key in the order list
cache_delete_store(c, key) == [store |-> DictPop(c.store, key), order |-> c.order]

\* _LRUCache.delete(key)
cache_delete(c, key) ==
    [store |-> DictPop(c.store, key),
     order |-> IF In(c.order, key) THEN ListRemove(c.order, key) ELSE c.order]

\* _LRUCache.get(key) at time t: the cache it leaves, the value it returns
\* and the branch it took
cache_get(c, key, t) ==
    IF key \in DOMAIN c.store
    THEN IF Live(c.store[key].ts, t)
         THEN [cache |-> [c EXCEPT !.order = Refresh(c.order, key)],
               value |-> c.store[key].value, path |-> "live"]
         ELSE [cache |-> cache_delete(c, key), value |-> NoValue, path |-> "expired"]
    ELSE [cache |-> c, value |-> NoValue, path |-> "absent"]

\* _LRUCache.set(key, value) at time t: the cache it leaves, the exception
\* it raises and the keys it evicts
cache_set(c, key, value, t) ==
    IF key \in DOMAIN c.store
    THEN IF In(c.order, key)
         THEN [cache |-> [store |-> DictSet(c.store, key, [ts |-> t, value |-> value]),
                          order |-> Append(ListRemove(c.order, key), key)],
               err |-> None, evict |-> <<>>]
         ELSE [cache |-> c, err |-> "ValueError", evict |-> <<>>]
    ELSE IF Len(c.order) >= Capacity
    THEN IF c.order = <<>>
         THEN [cache |-> c, err |-> "IndexError", evict |-> <<>>]
         ELSE LET evict == Head(c.order)
              IN  [cache |-> [store |-> DictSet(DictPop(c.store, evict), key,
                                                [ts |-> t, value |-> value]),
                              order |-> Append(Tail(c.order), key)],
                   err |-> None, evict |-> <<evict>>]
    ELSE [cache |-> [store |-> DictSet(c.store, key, [ts |-> t, value |-> value]),
                     order |-> Append(c.order, key)],
          err |-> None, evict |-> <<>>]

\* an extraction that stores whatever the encoder returns
NoEncodingsNever(face_encodings) == FALSE

\* get_face_descriptors_from_url, line 372: len(face_encodings) == 0
NoEncodings(face_encodings) == Len(face_encodings) = 0

\* get_face_descriptors_from_url(image_url) at time t: the cache it leaves,
\* the value it returns (NoValue: None) and whether it loaded the image
get_face_descriptors_from_url(c, image_url, t) ==
    LET cached == cache_get(c, image_url, t)
    IN  IF cached.value # NoValue
        THEN [cache |-> cached.cache, value |-> cached.value, loaded |-> FALSE]
        ELSE IF ~LoadImageFromUrl(image_url) \/ DetectFaces(image_url) = 0
                \/ NoEncodings(FaceEncodings(image_url))
        THEN [cache |-> cached.cache, value |-> NoValue, loaded |-> TRUE]
        ELSE LET s == cache_set(cached.cache, image_url, FaceEncodings(image_url), t)
             IN  [cache |-> s.cache,
                  value |-> IF s.err = None THEN FaceEncodings(image_url) ELSE NoValue,
                  loaded |-> TRUE]

\* history: the keys still stored, least recently used first, after a call
\* that set or read the keys of touched
LastUsed(used, keys, touched) ==
    LET Other(x) == x \in keys /\ ~In(touched, x)
    IN  SelectSeq(used, Other) \o touched

-----------------------------------------------------------------------------
(* The cache used by one client at a time *)

\* time passes
Tick ==
    /\ now < MaxNow
    /\ now' = now + 1
    /\ UNCHANGED <<storeVars, ret, th, descriptor_cache, last_used>>

\* self.descriptor_cache.get(key)
Get(key) ==
    LET r == cache_get(descriptor_cache, key, now)
    IN  /\ descriptor_cache' = r.cache
        /\ ret' = [op |-> "get", key |-> key, path |-> r.path, value |-> r.value]
        /\ last_used' = LastUsed(last_used, DOMAIN r.cache.store,
                                 IF r.path = "live" THEN <<key>> ELSE <<>>)
        /\ UNCHANGED <<storeVars, th, now>>

\* self.descriptor_cache.set(key, value)
Set(key, value) ==
    LET r == cache_set(descriptor_cache, key, value, now)
    IN  /\ descriptor_cache' = r.cache
        /\ ret' = [op |-> "set", key |-> key, value |-> value, out |-> r.err,
                   evict |-> r.evict,
                   evicted |-> IF r.evict = <<>> THEN <<>>
                               ELSE <<descriptor_cache.store[r.evict[1]]>>,
                   replaced |-> IF key \in DOMAIN descriptor_cache.store
                                THEN <<descriptor_cache.store[key]>> ELSE <<>>]
        /\ last_used' = LastUsed(last_used, DOMAIN r.cache.store,
                                 IF r.err = None THEN <<key>> ELSE <<>>)
        /\ UNCHANGED <<storeVars, th, now>>

\* self.descriptor_cache.delete(key)
Delete(key) ==
    /\ descriptor_cache' = cache_delete(descriptor_cache, key)
    /\ ret' = [op |-> "delete", key |-> key]
    /\ last_used' = LastUsed(last_used, DOMAIN descriptor_cache'.store, <<>>)
    /\ UNCHANGED <<storeVars, th, now>>

\* get_face_descriptors_from_url(image_url)
Extract(image_url) ==
    LET r == get_face_descriptors_from_url(descriptor_cache, image_url, now)
    IN  /\ descriptor_cache' = r.cache
        /\ ret' = [op |-> "extract", key |-> image_url, value |-> r.value,
                   loaded |-> r.loaded]
        /\ last_used' = LastUsed(last_used, DOMAIN r.cache.store,
                                 IF r.value # NoValue THEN <<image_url>> ELSE <<>>)
        /\ UNCHANGED <<storeVars, th, now>>

GetCall == \E k \in CacheUrls : Get(k)

SetCall == \E k \in CacheUrls, v \in CacheValues : Set(k, v)

DeleteCall == \E k \in CacheUrls : Delete(k)

ExtractCall == \E u \in CacheUrls : Extract(u)

NextCache == Tick \/ GetCall \/ SetCall \/ DeleteCall \/ ExtractCall

SpecCache == Init /\ [][NextCache]_vars

-----------------------------------------------------------------------------
(* Properties of the cache used by one client at a time *)

\* C12: an entry is stamped with the time of the set that wrote it; a get of
\* a stored key at a time up to that stamp plus the ttl returns the value,
\* moves the key to the end of the order and leaves the stamp as it is (a
\* read does not extend the lifetime); a get at any later time returns None
\* and removes the key from the store and from the order.
C12_TtlLifetime ==
    [][\A k \in CacheUrls :
          /\ \A v \in CacheValues :
                Set(k, v) => descriptor_cache'.store[k] = [ts |-> now, value |-> v]
          /\ (Get(k) /\ k \in DOMAIN descriptor_cache.store) =>
                LET e == descriptor_cache.store[k]
                IN  IF now <= e.ts + Ttl
                    THEN /\ ret'.value = e.value
                         /\ k \in DOMAIN descriptor_cache'.store
                         /\ descriptor_cache'.store[k] = e
                         /\ descriptor_cache'.order[Len(descriptor_cache'.order)] = k
                    ELSE /\ ret'.value = NoValue
                         /\ k \notin DOMAIN descriptor_cache'.store
                         /\ ~In(descriptor_cache'.order, k)]_vars

\* a get found its key expired and removed it, while another entry stays
C12_Witness ==
    /\ ret.op = "get"
    /\ ret.path = "expired"
    /\ ret.key \notin DOMAIN descriptor_cache.store
    /\ descriptor_cache.order # <<>>

\* C13: a set of a new key into a cache that holds capacity entries evicts
\* exactly one entry, the one whose last set or successful get is the
\* oldest; the other entries stay as they are.
C13_EvictsLeastRecentlyUsed ==
    [][\A k \in CacheUrls, v \in CacheValues :
          (/\ Set(k, v)
           /\ k \notin DOMAIN descriptor_cache.store
           /\ Cardinality(DOMAIN descriptor_cache.store) >= Capacity) =>
              /\ last_used # <<>>
              /\ DOMAIN descriptor_cache'.store =
                     (DOMAIN descriptor_cache.store \ {last_used[1]}) \cup {k}
              /\ \A x \in DOMAIN descriptor_cache.store \ {last_used[1]} :
                     descriptor_cache'.store[x] = descriptor_cache.store[x]]_vars

\* a set evicted a key although an entry written before it is still stored:
\* the older entry was read after the evicted one was written
C13_Witness ==
    /\ ret.op = "set"
    /\ ret.evict # <<>>
    /\ \E x \in DOMAIN descriptor_cache.store \ {ret.key} :
           descriptor_cache.store[x].ts < ret.evicted[1].ts

\* C14: an extraction loads the image only when the cache holds no live
\* entry for the URL, and returns a live entry as it is; it writes an entry
\* only when it found at least one descriptor: after a failure to load, no
\* face or no encoding, every entry of the cache is one it held before,
\* unchanged, and the URL has none.
C14_ExtractUsesAndFillsCache ==
    [][\A u \in CacheUrls :
          Extract(u) =>
              LET store == descriptor_cache.store
                  live  == u \in DOMAIN store /\ now <= store[u].ts + Ttl
                  found == LoadImageFromUrl(u) /\ Len(FaceEncodings(u)) > 0
              IN  IF live
                  THEN /\ ~ret'.loaded
                       /\ ret'.value = store[u].value
                       /\ descriptor_cache'.store = store
                  ELSE /\ ret'.loaded
                       /\ IF found
                          THEN /\ ret'.value = FaceEncodings(u)
                               /\ descriptor_cache'.store[u] =
                                      [ts |-> now, value |-> FaceEncodings(u)]
                          ELSE /\ ret'.value = NoValue
                               /\ u \notin DOMAIN descriptor_cache'.store
                               /\ \A k \in DOMAIN descriptor_cache'.store :
                                      /\ k \in DOMAIN store
                                      /\ descriptor_cache'.store[k] = store[k]]_vars

\* an extraction that found no descriptor left a cache that holds entries
C14_Witness ==
    /\ ret.op = "extract"
    /\ ret.loaded
    /\ ret.value = NoValue
    /\ descriptor_cache.order # <<>>

\* the order list holds every key once
NoKeyTwice(order) == \A i, j \in DOMAIN order : order[i] = order[j] => i = j

\* C29: after every get, set and delete of the one thread the order list
\* holds no key twice, exactly the keys of the store and at most capacity
\* keys; and a set on a stored key gives it the new value and the time of
\* the call, makes it the last of the order list and leaves every other key
\* with its entry
C29_OrderMatchesStore ==
    /\ [](/\ NoKeyTwice(descriptor_cache.order)
          /\ {descriptor_cache.order[i] : i \in DOMAIN descriptor_cache.order}
                 = DOMAIN descriptor_cache.store
          /\ Len(descriptor_cache.order) <= Capacity)
    /\ [][\A k \in CacheUrls, v \in CacheValues :
              (Set(k, v) /\ k \in DOMAIN descriptor_cache.store) =>
                  /\ descriptor_cache'.store[k] = [ts |-> now, value |-> v]
                  /\ descriptor_cache'.order[Len(descriptor_cache'.order)] = k
                  /\ DOMAIN descriptor_cache'.store = DOMAIN descriptor_cache.store
                  /\ \A x \in DOMAIN descriptor_cache.store \ {k} :
                         descriptor_cache'.store[x] = descriptor_cache.store[x]]_vars

\* a set replaced the older value of a key of a full cache, at a later time
\* than the key was written, and nothing was evicted
C29_Witness ==
    /\ ret.op = "set"
    /\ ret.replaced # <<>>
    /\ ret.replaced[1].value # ret.value
    /\ ret.replaced[1].ts < now
    /\ ret.evict = <<>>
    /\ Len(descriptor_cache.order) = Capacity
    /\ descriptor_cache.order[Capacity] = ret.key

-----------------------------------------------------------------------------
(* The cache under batch_analyze_photos: the workers of the thread pool    *)
(* run get_face_descriptors_from_url on the one cache, a statement at a    *)
(* time.                                                                   *)

\* the longest list of URLs of a batch
MaxBatch == 3

\* the thread that runs batch_analyze_photos
BatchThread == "t3"

\* the workers of the pool (max_workers is at least 2)
Workers == {"t1", "t2"}

\* the URLs of a batch
WorkerUrls == {"a_down", "a_one", "a_two", "a_three"}

\* the lists of URLs of a batch
PhotoUrls == UNION {[1..n -> WorkerUrls] : n \in 1..MaxBatch}

\* the worker is at statement pc
At(t, pc) == th[t].pc = pc

\* the worker goes on to statement pc
Goto(t, pc) == th' = [th EXCEPT ![t].pc = pc]

\* _process, lines 526-527: what get_face_descriptors_from_url returns at the
\* worker's statement: the descriptors after lines 36 and 49, None where
\* nothing was encoded or line 381 caught the exception raised
Returned(t, raised) ==
    IF raised = None /\ th[t].pc \in {"get_append", "set_append"}
    THEN th[t].value ELSE NoValue

\* the result of _process that the pool holds for a URL; line 530, the only
\* one with ok False, needs an exception that line 381 lets through
Future(state, descriptors) == [state |-> state, ok |-> TRUE, descriptors |-> descriptors]

\* _process returns: the result is kept for line 534 and the worker is free
\* for the next URL; raised is the exception of the cache that line 381
\* caught, if any
Return(t, raised) ==
    th' = [th EXCEPT ![t].pc = "ready", ![t].raised = raised,
                     ![BatchThread].futures[th[t].i] =
                         Future("done", Returned(t, raised))]

\* batch_analyze_photos, lines 515-520 and 534-544: results after the first
\* i results of the pool
RECURSIVE BatchResults(_, _, _)
BatchResults(photo_urls, futures, i) ==
    IF i = 0 THEN [processed |-> 0, faces_found |-> 0, failed |-> 0, photo_data |-> <<>>]
    ELSE LET results     == BatchResults(photo_urls, futures, i - 1)
             ok          == futures[i].ok
             descriptors == futures[i].descriptors
         IN  IF ok /\ descriptors # NoValue /\ Len(descriptors) > 0
             THEN [processed   |-> results.processed + 1,
                   faces_found |-> results.faces_found + 1,
                   failed      |-> results.failed,
                   photo_data  |-> Append(results.photo_data,
                                          [url |-> photo_urls[i],
                                           descriptors |-> descriptors,
                                           face_count |-> Len(descriptors)])]
             ELSE [processed   |-> results.processed + 1,
                   faces_found |-> results.faces_found,
                   failed      |-> IF ~ok THEN results.failed + 1 ELSE results.failed,
                   photo_data  |-> results.photo_data]

\* batch_analyze_photos, line 534: the URLs are handed to the pool
BatchBegin(photo_urls) ==
    /\ th[BatchThread].pc = "idle"
    /\ th' = [th EXCEPT ![BatchThread] =
                  [pc |-> "map", photo_urls |-> photo_urls, pending |-> photo_urls,
                   futures |-> [i \in DOMAIN photo_urls |-> Future("pending", NoValue)]]]
    /\ UNCHANGED <<storeVars, ret, cacheVars>>

\* a free worker takes the next URL: _process, lines 523-526, and get,
\* line 28
WTake(t) ==
    /\ th[t].pc \in {"idle", "ready"}
    /\ th[BatchThread].pc = "map"
    /\ th[BatchThread].pending # <<>>
    /\ th' = [th EXCEPT ![BatchThread].pending = Tail(@),
                        ![t] = [pc |-> "get", url |-> Head(th[BatchThread].pending),
                                i |-> Len(th[BatchThread].photo_urls)
                                          - Len(th[BatchThread].pending) + 1,
                                t |-> now, ts |-> 0, value |-> <<>>,
                                evict |-> None, raised |-> None]]
    /\ UNCHANGED <<storeVars, ret, cacheVars>>

\* batch_analyze_photos, lines 534-546: every URL was processed and results
\* is returned
BatchEnd ==
    /\ th[BatchThread].pc = "map"
    /\ th[BatchThread].pending = <<>>
    /\ \A t \in Workers : th[t].pc \in {"idle", "ready"}
    /\ th' = [th EXCEPT ![BatchThread] =
                  [pc |-> "done", photo_urls |-> th[BatchThread].photo_urls,
                   results |-> BatchResults(th[BatchThread].photo_urls,
                                            th[BatchThread].futures,
                                            Len(th[BatchThread].photo_urls))]]
    /\ UNCHANGED <<storeVars, ret, cacheVars>>

\* get, line 29: if key in self.store
WGet(t) ==
    /\ At(t, "get")
    /\ Goto(t, IF th[t].url \in DOMAIN descriptor_cache.store THEN "get_read" ELSE "load")
    /\ UNCHANGED <<storeVars, ret, cacheVars>>

\* get, line 30: ts, value = self.store[key]
WGetRead(t) ==
    /\ At(t, "get_read")
    /\ IF th[t].url \in DOMAIN descriptor_cache.store
       THEN th' = [th EXCEPT ![t].pc = "get_live",
                             ![t].ts = descriptor_cache.store[th[t].url].ts,
                             ![t].value = descriptor_cache.store[th[t].url].value]
       ELSE Return(t, "KeyError")
    /\ UNCHANGED <<storeVars, ret, cacheVars>>

\* get, lines 31 and 33: if now - ts <= self.ttl, if key in self.order
WGetLive(t) ==
    /\ At(t, "get_live")
    /\ Goto(t, IF Live(th[t].ts, th[t].t)
               THEN IF In(descriptor_cache.order, th[t].url)
                    THEN "get_remove" ELSE "get_append"
               ELSE "del_pop")
    /\ UNCHANGED <<storeVars, ret, cacheVars>>

\* get, line 34: self.order.remove(key)
WGetRemove(t) ==
    /\ At(t, "get_remove")
    /\ IF In(descriptor_cache.order, th[t].url)
       THEN /\ descriptor_cache' =
                   [descriptor_cache EXCEPT !.order = ListRemove(@, th[t].url)]
            /\ Goto(t, "get_append")
       ELSE /\ Return(t, "ValueError")
            /\ UNCHANGED descriptor_cache
    /\ UNCHANGED <<storeVars, ret, now, last_used>>

\* get, lines 35-36, and get_face_descriptors_from_url, lines 351-352: the
\* cached value is returned
WGetAppend(t) ==
    /\ At(t, "get_append")
    /\ descriptor_cache' = [descriptor_cache EXCEPT !.order = Append(@, th[t].url)]
    /\ Return(t, None)
    /\ UNCHANGED <<storeVars, ret, now, last_used>>

\* delete, line 52: self.store.pop(key, None)
WDelPop(t) ==
    /\ At(t, "del_pop")
    /\ descriptor_cache' = [descriptor_cache EXCEPT !.store = DictPop(@, th[t].url)]
    /\ Goto(t, "del_in")
    /\ UNCHANGED <<storeVars, ret, now, last_used>>

\* delete, line 53: if key in self.order
WDelIn(t) ==
    /\ At(t, "del_in")
    /\ Goto(t, IF In(descriptor_cache.order, th[t].url) THEN "del_remove" ELSE "load")
    /\ UNCHANGED <<storeVars, ret, cacheVars>>

\* delete, line 54: self.order.remove(key)
WDelRemove(t) ==
    /\ At(t, "del_remove")
    /\ IF In(descriptor_cache.order, th[t].url)
       THEN /\ descriptor_cache' =
                   [descriptor_cache EXCEPT !.order = ListRemove(@, th[t].url)]
            /\ Goto(t, "load")
       ELSE /\ Return(t, "ValueError")
            /\ UNCHANGED descriptor_cache
    /\ UNCHANGED <<storeVars, ret, now, last_used>>

\* get_face_descriptors_from_url, lines 354-376: the image is loaded and
\* encoded on the worker's own data
WLoad(t) ==
    /\ At(t, "load")
    /\ IF ~LoadImageFromUrl(th[t].url) \/ DetectFaces(th[t].url) = 0
          \/ NoEncodings(FaceEncodings(th[t].url))
       THEN Return(t, None)
       ELSE th' = [th EXCEPT ![t].pc = "set", ![t].value = FaceEncodings(th[t].url)]
    /\ UNCHANGED <<storeVars, ret, cacheVars>>

\* set, lines 42-43: now = time.time(), if key in self.store
WSet(t) ==
    /\ At(t, "set")
    /\ th' = [th EXCEPT ![t].t = now,
                        ![t].pc = IF th[t].url \in DOMAIN descriptor_cache.store
                                  THEN "set_remove" ELSE "set_full"]
    /\ UNCHANGED <<storeVars, ret, cacheVars>>

\* set, line 44: self.order.remove(key)
WSetRemove(t) ==
    /\ At(t, "set_remove")
    /\ IF In(descriptor_cache.order, th[t].url)
       THEN /\ descriptor_cache' =
                   [descriptor_cache EXCEPT !.order = ListRemove(@, th[t].url)]
            /\ Goto(t, "set_store")
       ELSE /\ Return(t, "ValueError")
            /\ UNCHANGED descriptor_cache
    /\ UNCHANGED <<storeVars, ret, now, last_used>>

\* set, line 45: elif len(self.order) >= self.capacity
WSetFull(t) ==
    /\ At(t, "set_full")
    /\ Goto(t, IF Len(descriptor_cache.order) >= Capacity THEN "set_evict" ELSE "set_store")
    /\ UNCHANGED <<storeVars, ret, cacheVars>>

\* set, line 46: evict = self.order.pop(0)
WSetEvict(t) ==
    /\ At(t, "set_evict")
    /\ IF descriptor_cache.order # <<>>
       THEN /\ descriptor_cache' = [descriptor_cache EXCEPT !.order = Tail(@)]
            /\ th' = [th EXCEPT ![t].pc = "set_pop",
                                ![t].evict = Head(descriptor_cache.order)]
       ELSE /\ Return(t, "IndexError")
            /\ UNCHANGED descriptor_cache
    /\ UNCHANGED <<storeVars, ret, now, last_used>>

\* set, line 47: self.store.pop(evict, None)
WSetPop(t) ==
    /\ At(t, "set_pop")
    /\ descriptor_cache' = [descriptor_cache EXCEPT !.store = DictPop(@, th[t].evict)]
    /\ Goto(t, "set_store")
    /\ UNCHANGED <<storeVars, ret, now, last_used>>

\* set, line 48: self.store[key] = (now, value)
WSetStore(t) ==
    /\ At(t, "set_store")
    /\ descriptor_cache' =
           [descriptor_cache EXCEPT
               !.store = DictSet(@, th[t].url, [ts |-> th[t].t, value |-> th[t].value])]
    /\ Goto(t, "set_append")
    /\ UNCHANGED <<storeVars, ret, now, last_used>>

\* set, line 49: self.order.append(key), and the descriptors are returned
WSetAppend(t) ==
    /\ At(t, "set_append")
    /\ descriptor_cache' = [descriptor_cache EXCEPT !.order = Append(@, th[t].url)]
    /\ Return(t, None)
    /\ UNCHANGED <<storeVars, ret, now, last_used>>

BatchCall == \E photo_urls \in PhotoUrls : BatchBegin(photo_urls)

WStep ==
    \E t \in Workers :
        \/ WTake(t) \/ WGet(t) \/ WGetRead(t) \/ WGetLive(t) \/ WGetRemove(t)
        \/ WGetAppend(t) \/ WDelPop(t) \/ WDelIn(t) \/ WDelRemove(t) \/ WLoad(t)
        \/ WSet(t) \/ WSetRemove(t) \/ WSetFull(t) \/ WSetEvict(t) \/ WSetPop(t)
        \/ WSetStore(t) \/ WSetAppend(t)

NextCacheThreaded == Tick \/ BatchCall \/ BatchEnd \/ WStep

SpecCacheThreaded == Init /\ [][NextCacheThreaded]_vars

-----------------------------------------------------------------------------
(* Properties of the cache under batch_analyze_photos *)

\* no worker is inside get_face_descriptors_from_url
NoWorkerRunning == \A t \in Workers : th[t].pc \in {"idle", "ready"}

\* C11 (as claimed): the cache operations of concurrent workers exclude one
\* another: none of them raises because a key vanished under it, and once
\* the workers have returned the order list holds no key twice, no key the
\* store lacks and no more keys than the capacity.
C11_CacheOperationsExclusive ==
    /\ \A t \in Workers : th[t].pc = "ready" => th[t].raised = None
    /\ NoWorkerRunning =>
           /\ \A i, j \in DOMAIN descriptor_cache.order :
                  descriptor_cache.order[i] = descriptor_cache.order[j] => i = j
           /\ \A i \in DOMAIN descriptor_cache.order :
                  descriptor_cache.order[i] \in DOMAIN descriptor_cache.store
           /\ Len(descriptor_cache.order) <= Capacity

-----------------------------------------------------------------------------
(* Part 3: AdvancedFaceRecognitionService, comparison and matching.        *)
(* A descriptor is a JSON value: a list of numbers (type "list", v its     *)
(* numbers in fixed point), a list of strings (type "strings", v of the    *)
(* list's length) or null (type "None").  A tolerance is a number (type    *)
(* "num"), null (type "None") or a string that is no number (type "text"). *)

\* self.tolerance = 0.6
SelfTolerance == 600

\* the 1.2 of the confidence: max(0, 1 - distance / 1.2)
ConfidenceScale == 1200

\* the least confidence of a returned photo: 0.4
MinConfidence == 400

\* the distance of the result returned after an exception: 999.0
WorstDistance == 999000

\* the longest photo collection
MaxItems == 3

List(v) == [type |-> "list", v |-> v]
Strings(v) == [type |-> "strings", v |-> v]
NoDescriptor == [type |-> "None", v |-> <<>>]

Num(x) == [type |-> "num", v |-> x]
NoTolerance == [type |-> "None", v |-> 0]
TextTolerance == [type |-> "text", v |-> 0]

\* the descriptors compared: five lists of two numbers; one of three
\* numbers, one of one number, one of strings and null
Descriptors ==
    {List(<<0, 0>>), List(<<600, 0>>), List(<<300, 400>>), List(<<1200, 0>>),
     List(<<0, 1500>>), List(<<0, 0, 0>>), List(<<700>>), Strings(<<0, 0>>),
     NoDescriptor}

\* the tolerances of compare_faces
Tolerances ==
    {Num(0 - 100), Num(0), Num(500), Num(600), Num(1500), NoTolerance, TextTolerance}

\* not value, of a descriptor
Falsy(d) == d.type = "None" \/ Len(d.v) = 0

\* bool(tolerance), of a tolerance
Truthy(tolerance) == tolerance.type = "text" \/ (tolerance.type = "num" /\ tolerance.v # 0)

\* np.array(descriptor1) - np.array(descriptor2) is defined: numbers, of
\* equal length or one side of length 1
CanSubtract(a, b) ==
    /\ a.type = "list" /\ b.type = "list"
    /\ (Len(a.v) = Len(b.v) \/ Len(a.v) = 1 \/ Len(b.v) = 1)

\* np.dot(encoding1, encoding2) is defined
CanDot(a, b) == Len(a.v) = Len(b.v)

\* encoding1 - encoding2
Minus(a, b) == [i \in 1..Len(a) |-> a[i] - b[i]]

\* np.dot(encoding1, encoding2) / (norm(encoding1) * norm(encoding2)): nan
\* when a norm is zero
CosineSimilarity(a, b) ==
    IF Norm(a) = 0 \/ Norm(b) = 0
    THEN [nan |-> TRUE, v |-> 0]
    ELSE [nan |-> FALSE, v |-> ((DotSum(a, b, Len(a)) \div Norm(a)) * Scale) \div Norm(b)]

\* a match only below the tolerance
IsMatchBelow(distance, tolerance) == distance < tolerance

\* compare_faces, line 414: distance <= tolerance
IsMatch(distance, tolerance) == distance <= tolerance

\* a confidence that is 1 at every distance
ConfidenceFull(distance) == Scale

\* compare_faces, line 417: max(0, 1 - (distance / 1.2))
Confidence(distance) == Max(0, Scale - (distance * Scale) \div ConfidenceScale)

\* compare_faces, lines 429-435: the result after an exception
WorstCase(tolerance_used) ==
    [is_match |-> FALSE, distance |-> WorstDistance,
     similarity |-> [nan |-> FALSE, v |-> 0], confidence |-> 0,
     tolerance_used |-> tolerance_used]

\* compare_faces(descriptor1, descriptor2, tolerance): what it raises, if
\* anything, and the dictionary it returns
compare_faces(descriptor1, descriptor2, tolerance) ==
    LET tol == IF tolerance.type = "None" THEN Num(SelfTolerance) ELSE tolerance
    IN  IF /\ CanSubtract(descriptor1, descriptor2)
           /\ CanDot(descriptor1, descriptor2)
           /\ tol.type = "num"
        THEN LET distance == Norm(Minus(descriptor1.v, descriptor2.v))
             IN  [out |-> "ok",
                  result |-> [is_match |-> IsMatch(distance, tol.v),
                              distance |-> distance,
                              similarity |-> CosineSimilarity(descriptor1.v, descriptor2.v),
                              confidence |-> Confidence(distance),
                              tolerance_used |-> tol.v]]
        ELSE \* except, line 434: float(tolerance or self.tolerance)
             IF Truthy(tolerance) /\ tolerance.type = "text"
             THEN [out |-> "ValueError", result |-> <<>>]
             ELSE [out |-> "ok",
                   result |-> WorstCase(IF Truthy(tolerance) THEN tolerance.v
                                        ELSE SelfTolerance)]

\* a photo of the collection: a dictionary with the keys of keys
Photo(keys, id, descriptor) == [keys |-> keys, id |-> id, descriptor |-> descriptor]

\* the photos of the collections: a and b at one distance of the query, c
\* and d farther, e without descriptor, f with an empty one, g with one of
\* another length, h without id, i at the greatest distance whose
\* confidence is 0.4
Photos ==
    {Photo({"id", "descriptor"}, "a", List(<<300, 0>>)),
     Photo({"id", "descriptor"}, "b", List(<<0, 300>>)),
     Photo({"id", "descriptor"}, "c", List(<<600, 0>>)),
     Photo({"id", "descriptor"}, "d", List(<<900, 0>>)),
     Photo({"id"}, "e", NoDescriptor),
     Photo({"id", "descriptor"}, "f", List(<<>>)),
     Photo({"id", "descriptor"}, "g", List(<<0, 0, 0>>)),
     Photo({"descriptor"}, "", List(<<480, 0>>)),
     Photo({"id", "descriptor"}, "i", List(<<720, 0>>))}

\* the collections
PhotoCollections == UNION {[1..n -> Photos] : n \in 0..MaxItems}

\* the descriptors of the user
UserDescriptors == {List(<<0, 0>>)}

\* the tolerances of find_matching_photos
FindTolerances == {Num(300), Num(600), Num(720), Num(1000), NoTolerance}

\* find_matching_photos, line 462: the photo is skipped
Skipped(photo_data) == "descriptor" \notin photo_data.keys \/ Falsy(photo_data.descriptor)

\* find_matching_photos, lines 473-483: the dictionary of a matched photo
Matched(photo_data, comparison) ==
    [id |-> photo_data.id, score |-> comparison.confidence,
     similarity |-> comparison.similarity, distance |-> comparison.distance,
     tolerance_used |-> comparison.tolerance_used]

\* find_matching_photos, lines 461-483: the loop up to photo i: what it
\* raised, if anything, and matched_photos
RECURSIVE MatchedPhotos(_, _, _, _)
MatchedPhotos(user_descriptor, photo_collection, tolerance, i) ==
    IF i = 0 THEN [err |-> None, list |-> <<>>]
    ELSE LET before     == MatchedPhotos(user_descriptor, photo_collection, tolerance, i - 1)
             photo_data == photo_collection[i]
             comparison == compare_faces(user_descriptor, photo_data.descriptor, tolerance)
         IN  IF before.err # None \/ Skipped(photo_data) THEN before
             ELSE IF comparison.out # "ok"
             THEN [err |-> comparison.out, list |-> before.list]
             ELSE IF comparison.result.is_match
                     /\ comparison.result.confidence >= MinConfidence
             THEN IF "id" \in photo_data.keys
                  THEN [err |-> None,
                        list |-> Append(before.list, Matched(photo_data, comparison.result))]
                  ELSE [err |-> "KeyError", list |-> before.list]
             ELSE before

\* a sort that puts a photo before those of its score
RECURSIVE InsertByScoreFirst(_, _)
InsertByScoreFirst(sorted, x) ==
    IF sorted = <<>> THEN <<x>>
    ELSE IF Head(sorted).score > x.score
    THEN <<Head(sorted)>> \o InsertByScoreFirst(Tail(sorted), x)
    ELSE <<x>> \o sorted

\* find_matching_photos, line 486: matched_photos.sort(key=score,
\* reverse=True) puts a photo after those of its score or a higher one
InsertByScore(sorted, x) == InsertDesc(sorted, x)

RECURSIVE SortByScore(_, _)
SortByScore(list, i) ==
    IF i = 0 THEN <<>> ELSE InsertByScore(SortByScore(list, i - 1), list[i])

\* find_matching_photos(user_descriptor, photo_collection, tolerance) on a
\* service whose initialized is is_initialized: what it raises, if anything,
\* and the list it returns
find_matching_photos(is_initialized, user_descriptor, photo_collection, tolerance) ==
    IF ~is_initialized THEN [out |-> "Exception", result |-> <<>>]
    ELSE LET tol  == IF tolerance.type = "None" THEN Num(SelfTolerance) ELSE tolerance
             loop == MatchedPhotos(user_descriptor, photo_collection, tol,
                                   Len(photo_collection))
         IN  IF loop.err # None THEN [out |-> "Exception", result |-> <<>>]
             ELSE [out |-> "ok", result |-> SortByScore(loop.list, Len(loop.list))]

\* the length match_faces expects of a descriptor: the 128 of line 163, at
\* the length of the descriptors of this model
ExpectedDim == 2

\* a JSON string and a key the request does not have
Text(v) == [type |-> "text", v |-> v]
Absent == [type |-> "absent", v |-> <<>>]

\* the user descriptors of the requests: lists of two numbers or strings, of
\* one, of three and of no number, null, a string, and no user_descriptor
RequestDescriptors ==
    {List(<<0, 0>>), List(<<0>>), List(<<0, 0, 0>>), List(<<>>),
     Strings(<<0, 0>>), NoDescriptor, Text(<<0, 0>>), Absent}

\* the collections of the requests: the empty one and those of one photo
RequestCollections == {c \in PhotoCollections : Len(c) <= 1}

\* the tolerances of the requests
RequestTolerances == {Num(600), Num(1000), NoTolerance}

\* match_faces, lines 152-153: len() of the value
HasLen(value) == value.type \in {"list", "strings", "text"}

\* match_faces, line 157: isinstance(value, list)
IsList(value) == value.type \in {"list", "strings"}

\* a check that lets every length through
DimensionAny(user_descriptor) == TRUE

\* match_faces, line 163: len(user_descriptor) != 128 is false
DimensionOk(user_descriptor) == Len(user_descriptor.v) = ExpectedDim

\* the response of match_faces: status, message, matched_photos, and called,
\* which tells whether find_matching_photos was called
Response(status, message, got, matched_photos, called) ==
    [status |-> status, message |-> message, got |-> got,
     matched_photos |-> matched_photos, called |-> called]

\* match_faces on a request with user_descriptor, photo_collection and
\* tolerance, the service's initialized being is_initialized
match_faces(is_initialized, user_descriptor, photo_collection, tolerance) ==
    IF user_descriptor.type = "absent"
    THEN Response(400, "Missing required data: user_descriptor and photo_collection",
                  0, <<>>, FALSE)
    ELSE IF ~HasLen(user_descriptor)
    THEN Response(500, "TypeError", 0, <<>>, FALSE)
    ELSE IF ~IsList(user_descriptor)
    THEN Response(400, "Invalid data format", 0, <<>>, FALSE)
    ELSE IF ~DimensionOk(user_descriptor)
    THEN Response(400, "Invalid user descriptor: expected 128 dimensions, got",
                  Len(user_descriptor.v), <<>>, FALSE)
    ELSE LET r == find_matching_photos(is_initialized, user_descriptor,
                                       photo_collection, tolerance)
         IN  IF r.out # "ok" THEN Response(500, "Exception", 0, <<>>, TRUE)
             ELSE Response(200, "", 0, r.result, TRUE)

\* the arguments of a call of compare_faces
CompareArgs ==
    [op : {"compare_args"}, descriptor1 : Descriptors, descriptor2 : Descriptors,
     tolerance : Tolerances]

\* the arguments of a call of find_matching_photos
FindArgs ==
    [op : {"find_args"}, initialized : BOOLEAN, user_descriptor : UserDescriptors,
     photo_collection : PhotoCollections, tolerance : FindTolerances]

\* the arguments of a request to match_faces
MatchFacesArgs ==
    [op : {"match_faces_args"}, initialized : BOOLEAN,
     user_descriptor : RequestDescriptors, photo_collection : RequestCollections,
     tolerance : RequestTolerances]

\* a client about to call compare_faces, find_matching_photos or match_faces
InitMatch ==
    /\ initialized = FALSE
    /\ heap = <<>>
    /\ event_indices = [e \in Events |-> 0]
    /\ th = [t \in ThreadIds |-> Idle]
    /\ descriptor_cache = [store |-> [k \in {} |-> 0], order |-> <<>>]
    /\ now = 0
    /\ last_used = <<>>
    /\ ret \in CompareArgs \cup FindArgs \cup MatchFacesArgs

\* compare_faces(descriptor1, descriptor2, tolerance)
CompareCall ==
    /\ ret.op = "compare_args"
    /\ LET r == compare_faces(ret.descriptor1, ret.descriptor2, ret.tolerance)
       IN  ret' = [op |-> "compare", descriptor1 |-> ret.descriptor1,
                   descriptor2 |-> ret.descriptor2, tolerance |-> ret.tolerance,
                   out |-> r.out, result |-> r.result]
    /\ UNCHANGED <<storeVars, th, cacheVars>>

\* find_matching_photos(user_descriptor, photo_collection, tolerance)
FindCall ==
    /\ ret.op = "find_args"
    /\ LET r == find_matching_photos(ret.initialized, ret.user_descriptor,
                                     ret.photo_collection, ret.tolerance)
       IN  ret' = [op |-> "find", initialized |-> ret.initialized,
                   user_descriptor |-> ret.user_descriptor,
                   photo_collection |-> ret.photo_collection,
                   tolerance |-> ret.tolerance, out |-> r.out, result |-> r.result]
    /\ UNCHANGED <<storeVars, th, cacheVars>>

\* POST /api/face/match
MatchFacesCall ==
    /\ ret.op = "match_faces_args"
    /\ LET r == match_faces(ret.initialized, ret.user_descriptor,
                            ret.photo_collection, ret.tolerance)
       IN  ret' = [op |-> "match_faces", initialized |-> ret.initialized,
                   user_descriptor |-> ret.user_descriptor,
                   photo_collection |-> ret.photo_collection,
                   tolerance |-> ret.tolerance, response |-> r]
    /\ UNCHANGED <<storeVars, th, cacheVars>>

NextMatch == CompareCall \/ FindCall \/ MatchFacesCall

SpecMatch == InitMatch /\ [][NextMatch]_vars

-----------------------------------------------------------------------------
(* Properties of comparison and matching *)

\* a list of numbers
WellFormed(d) == d.type = "list"

\* the tolerance in force: self.tolerance when none is given
Effective(tolerance) == IF tolerance.type = "None" THEN SelfTolerance ELSE tolerance.v

\* C15: for two lists of numbers of one length and a tolerance that is a
\* number or missing, compare_faces returns the Euclidean distance (to the
\* resolution of the fixed point), is_match exactly when that distance is at
\* most the tolerance, and the confidence 1 - distance/1.2 (to the
\* resolution), which is 0 from distance 1.2 on and never negative.
C15_MatchAndConfidence ==
    (/\ ret.op = "compare"
     /\ WellFormed(ret.descriptor1) /\ WellFormed(ret.descriptor2)
     /\ Len(ret.descriptor1.v) = Len(ret.descriptor2.v)
     /\ ret.tolerance.type # "text") =>
        /\ ret.out = "ok"
        /\ LET r  == ret.result
               d  == Minus(ret.descriptor1.v, ret.descriptor2.v)
               sq == SumSq(d, Len(d))
           IN  /\ r.distance >= 0
               /\ r.distance * r.distance <= sq
               /\ sq < (r.distance + 1) * (r.distance + 1)
               /\ r.is_match = (r.distance <= Effective(ret.tolerance))
               /\ r.confidence >= 0
               /\ r.distance >= ConfidenceScale => r.confidence = 0
               /\ r.distance < ConfidenceScale =>
                      /\ r.confidence * ConfidenceScale
                             >= (ConfidenceScale - r.distance) * Scale
                      /\ r.confidence * ConfidenceScale
                             < (ConfidenceScale - r.distance) * Scale + ConfidenceScale

\* two descriptors at a distance that equals the tolerance were compared,
\* and match
C15_Witness ==
    /\ ret.op = "compare"
    /\ ret.out = "ok"
    /\ ret.tolerance.type = "num"
    /\ ret.result.distance = ret.tolerance.v
    /\ ret.result.distance > 0
    /\ ret.result.is_match

\* the descriptors are no two lists of numbers of one length
Malformed(descriptor1, descriptor2) ==
    \/ ~WellFormed(descriptor1) \/ ~WellFormed(descriptor2)
    \/ Len(descriptor1.v) # Len(descriptor2.v)

\* C16 (as claimed): compare_faces never raises, and on descriptors of
\* unequal length or with values that are missing or no numbers it returns
\* is_match false, distance 999.0, similarity 0 and confidence 0.
C16_CompareNeverRaises ==
    ret.op = "compare" =>
        /\ ret.out = "ok"
        /\ Malformed(ret.descriptor1, ret.descriptor2) =>
               /\ ret.result.is_match = FALSE
               /\ ret.result.distance = WorstDistance
               /\ ret.result.similarity = [nan |-> FALSE, v |-> 0]
               /\ ret.result.confidence = 0

\* the photo carries a descriptor that is not empty, and compare_faces
\* gives a distance within the tolerance and a confidence of 0.4 or more
Qualifies(user_descriptor, photo_data, tolerance) ==
    /\ "descriptor" \in photo_data.keys
    /\ photo_data.descriptor.type # "None"
    /\ Len(photo_data.descriptor.v) > 0
    /\ LET c == compare_faces(user_descriptor, photo_data.descriptor, Num(tolerance))
       IN  /\ c.out = "ok"
           /\ c.result.is_match
           /\ c.result.distance <= tolerance
           /\ c.result.confidence >= MinConfidence

\* the positions of the collection whose photo qualifies
Qualifying(call, tolerance) ==
    {i \in DOMAIN call.photo_collection :
        Qualifies(call.user_descriptor, call.photo_collection[i], tolerance)}

\* the identifiers of the photos
PhotoIdsOf(photos) == {p.id : p \in {q \in photos : "id" \in q.keys}}

\* C17 (as claimed): find_matching_photos returns exactly the photos of the
\* collection that carry a non-empty descriptor and for which compare_faces
\* gives is_match and a confidence of 0.4 or more: as many results as such
\* photos, and for every identifier as many results as such photos with it.
C17_ReturnsExactlyTheMatches ==
    (ret.op = "find" /\ ret.initialized) =>
        LET q == Qualifying(ret, Effective(ret.tolerance))
        IN  /\ ret.out = "ok"
            /\ Len(ret.result) = Cardinality(q)
            /\ \A id \in PhotoIdsOf(Photos) :
                   Cardinality({i \in DOMAIN ret.result : ret.result[i].id = id})
                       = Cardinality({i \in q :
                             /\ "id" \in ret.photo_collection[i].keys
                             /\ ret.photo_collection[i].id = id})

\* the scores of a list of matched photos
ScoresOf(list) == {list[i].score : i \in DOMAIN list}

\* the matched photos of one score, in their order
OfScore(list, score) ==
    LET Has(x) == x.score = score
    IN  SelectSeq(list, Has)

\* C18: the list find_matching_photos returns is in descending order of
\* score, and its photos of one score are in the order the loop met them in
\* the collection.
C18_SortedAndStable ==
    (ret.op = "find" /\ ret.out = "ok") =>
        LET loop == MatchedPhotos(ret.user_descriptor, ret.photo_collection,
                                  Num(Effective(ret.tolerance)),
                                  Len(ret.photo_collection))
        IN  /\ \A i, j \in DOMAIN ret.result :
                   i < j => ret.result[i].score >= ret.result[j].score
            /\ Len(ret.result) = Len(loop.list)
            /\ \A score \in ScoresOf(loop.list) :
                   OfScore(ret.result, score) = OfScore(loop.list, score)

\* two photos of one score and a photo of a lower score placed between them
\* in the collection were returned
C18_Witness ==
    /\ ret.op = "find"
    /\ ret.out = "ok"
    /\ Len(ret.result) = 3
    /\ ret.result[1].id = "a" /\ ret.result[2].id = "b" /\ ret.result[3].id = "c"
    /\ ret.result[1].score = ret.result[2].score
    /\ ret.photo_collection[2].id = "c"

\* the tolerances that are numbers, at or above t
NotBelow(t) == {u \in {Effective(x) : x \in FindTolerances} : u >= t}

\* C19 (as claimed): for tolerances t1 <= t2, every photo compare_faces
\* reports as a match of the user's descriptor at t1 is one at t2, and every
\* photo find_matching_photos returns at t1 is returned at t2.
C19_ToleranceMonotone ==
    (ret.op = "find" /\ ret.initialized /\ ret.out = "ok") =>
        \A t2 \in NotBelow(Effective(ret.tolerance)) :
            /\ \A i \in DOMAIN ret.photo_collection :
                   LET d  == ret.photo_collection[i].descriptor
                       c1 == compare_faces(ret.user_descriptor, d, ret.tolerance)
                       c2 == compare_faces(ret.user_descriptor, d, Num(t2))
                   IN  (c1.out = "ok" /\ c1.result.is_match) =>
                           (c2.out = "ok" /\ c2.result.is_match)
            /\ LET r2 == find_matching_photos(TRUE, ret.user_descriptor,
                                              ret.photo_collection, Num(t2))
               IN  \A i \in DOMAIN ret.result :
                       /\ r2.out = "ok"
                       /\ \E j \in DOMAIN r2.result : r2.result[j].id = ret.result[i].id

\* the photo is a record that cannot match: it lacks its identifier, or its
\* descriptor is no list of numbers of the length of the user's
Bad(user_descriptor, photo_data) ==
    \/ "id" \notin photo_data.keys
    \/ /\ "descriptor" \in photo_data.keys
       /\ ~Falsy(photo_data.descriptor)
       /\ Malformed(user_descriptor, photo_data.descriptor)

\* the collection without its bad records
Good(user_descriptor, photo_collection) ==
    LET Ok(photo_data) == ~Bad(user_descriptor, photo_data)
    IN  SelectSeq(photo_collection, Ok)

\* C20 (as claimed): on an initialized service find_matching_photos returns
\* a list for every collection, the empty list for the empty collection, and
\* a bad record changes at most its own presence: the list holds what the
\* call on the collection without its bad records returns.
C20_FindIsTotal ==
    (ret.op = "find" /\ ret.initialized) =>
        /\ ret.out = "ok"
        /\ ret.photo_collection = <<>> => ret.result = <<>>
        /\ LET good == find_matching_photos(TRUE, ret.user_descriptor,
                           Good(ret.user_descriptor, ret.photo_collection),
                           ret.tolerance)
           IN  \A i \in DOMAIN good.result :
                   \E j \in DOMAIN ret.result : ret.result[j] = good.result[i]

\* C21: a request to match_faces whose user descriptor is a list of another
\* length than the expected one is answered 400 with the message that names
\* the expected and the received length, and find_matching_photos, which
\* does every comparison, is not called
C21_WrongLengthRejected ==
    (ret.op = "match_faces" /\ IsList(ret.user_descriptor)
        /\ Len(ret.user_descriptor.v) # ExpectedDim)
    => /\ ret.response.status = 400
       /\ ret.response.message = "Invalid user descriptor: expected 128 dimensions, got"
       /\ ret.response.got = Len(ret.user_descriptor.v)
       /\ ~ret.response.called

\* a descriptor of three numbers was rejected although the collection has a
\* photo that a query of the expected length matches
C21_Witness ==
    /\ ret.op = "match_faces"
    /\ ret.user_descriptor = List(<<0, 0, 0>>)
    /\ Len(ret.photo_collection) > 0
    /\ ret.photo_collection[1].id = "a"
    /\ ret.response.status = 400
    /\ ~ret.response.called

-----------------------------------------------------------------------------
(* Properties of batch_analyze_photos *)

\* the URLs of the batch whose image could not be loaded
Unreachable(photo_urls) == {i \in DOMAIN photo_urls : ~LoadImageFromUrl(photo_urls[i])}

\* C22: when batch_analyze_photos returns, processed is the number of URLs
\* and failed counts at least every URL whose image could not be loaded
C22_BatchCountsFailures ==
    th[BatchThread].pc = "done"
    => /\ th[BatchThread].results.processed = Len(th[BatchThread].photo_urls)
       /\ th[BatchThread].results.failed
              >= Cardinality(Unreachable(th[BatchThread].photo_urls))

\* the greatest distance whose confidence is MinConfidence: 0.72
ConfidenceBound == ((Scale - MinConfidence) * ConfidenceScale) \div Scale

\* the matched photos without the tolerance they were matched at
Items(list) ==
    [i \in DOMAIN list |->
        [id |-> list[i].id, score |-> list[i].score,
         similarity |-> list[i].similarity, distance |-> list[i].distance]]

\* C30: find_matching_photos returns no photo at a distance above 0.72, and
\* at a tolerance of 0.72 or more it returns the photos, scores and order
\* (or raises) as it does at the tolerance 0.72
C30_ConfidenceFloorBounds ==
    (ret.op = "find" /\ ret.initialized) =>
        /\ \A i \in DOMAIN ret.result : ret.result[i].distance <= ConfidenceBound
        /\ Effective(ret.tolerance) >= ConfidenceBound =>
               LET r == find_matching_photos(TRUE, ret.user_descriptor,
                                             ret.photo_collection, Num(ConfidenceBound))
               IN  /\ ret.out = r.out
                   /\ Items(ret.result) = Items(r.result)

\* at the tolerance 1.0 the photo at distance 0.72 was returned and the photo
\* at distance 0.9, within the tolerance, was not
C30_Witness ==
    /\ ret.op = "find"
    /\ ret.out = "ok"
    /\ ret.tolerance = Num(1000)
    /\ \E i \in DOMAIN ret.photo_collection : ret.photo_collection[i].id = "d"
    /\ Len(ret.result) = 1
    /\ ret.result[1].id = "i"
    /\ ret.result[1].distance = ConfidenceBound

-----------------------------------------------------------------------------
(* Part 4: AdvancedFaceRecognitionService, detection and the descriptor of *)
(* one image.  A box is <<top, right, bottom, left>>.  The detector of an  *)
(* image tells, for every call of face_recognition.face_locations that     *)
(* _detect_faces_multiple_methods can make, whether it raises and the      *)
(* boxes it returns; calls lists the calls that were made.                 *)

\* the longest list of boxes given to _remove_duplicate_faces
MaxBoxes == 3

\* the boxes: B2 covers 30 of the 100 of B1, which is half of B2; B3 covers
\* 30 of the 100 of B1, which is 30% of either, and all of B2; B4 is apart;
\* B5 lies inside B1
B1 == <<0, 10, 10, 0>>
B2 == <<0, 13, 10, 7>>
B3 == <<0, 17, 10, 7>>
B4 == <<20, 30, 30, 20>>
B5 == <<2, 6, 6, 2>>
Boxes == {B1, B2, B3, B4, B5}

\* the lists of boxes
BoxLists == UNION {[1..n -> Boxes] : n \in 0..MaxBoxes}

\* what a call of the detector does
Raises == [raises |-> TRUE, boxes |-> <<>>]
Found(boxes) == [raises |-> FALSE, boxes |-> boxes]

\* for upsample in [0, 1, 2], line 169
UpsampleFactors == <<0, 1, 2>>

\* the detectors: what the configured model, the other model and the three
\* upsampling factors do on the image
Detectors ==
    [primary  : {Raises, Found(<<>>), Found(<<B1>>), Found(<<B5, B4>>), Found(<<B1, B2>>)},
     fallback : {Raises, Found(<<>>), Found(<<B4>>)},
     upsample : [0..2 -> {Raises, Found(<<>>), Found(<<B3>>)}]]

\* _remove_duplicate_faces, lines 202-206
OverlapArea(face, existing_face) ==
    Max(0, Min(face[2], existing_face[2]) - Max(face[4], existing_face[4]))
        * Max(0, Min(face[3], existing_face[3]) - Max(face[1], existing_face[1]))

FaceArea(face) == (face[2] - face[4]) * (face[3] - face[1])

\* a threshold that also takes an overlap of exactly 30%
OverlapsAtLeast(face, existing_face) ==
    10 * OverlapArea(face, existing_face)
        >= 3 * Min(FaceArea(face), FaceArea(existing_face))

\* _remove_duplicate_faces, line 208: overlap_area > 0.3 * min(face_area,
\* existing_area); on integers 0.3 * n is exact where it is whole
Overlaps(face, existing_face) ==
    10 * OverlapArea(face, existing_face)
        > 3 * Min(FaceArea(face), FaceArea(existing_face))

\* _remove_duplicate_faces, lines 196-210: is_duplicate
IsDuplicate(face, unique_faces) ==
    \E i \in DOMAIN unique_faces : Overlaps(face, unique_faces[i])

\* _remove_duplicate_faces, lines 193-213: unique_faces after the first i
\* faces
RECURSIVE UniqueFaces(_, _)
UniqueFaces(face_locations, i) ==
    IF i = 0 THEN <<>>
    ELSE LET unique_faces == UniqueFaces(face_locations, i - 1)
         IN  IF IsDuplicate(face_locations[i], unique_faces) THEN unique_faces
             ELSE Append(unique_faces, face_locations[i])

\* _remove_duplicate_faces(face_locations)
remove_duplicate_faces(face_locations) ==
    IF Len(face_locations) <= 1 THEN face_locations
    ELSE UniqueFaces(face_locations, Len(face_locations))

\* a test that runs the next strategy whatever was found
StillNoneAlways(face_locations) == TRUE

\* _detect_faces_multiple_methods, lines 157 and 166: len(face_locations) == 0
StillNone(face_locations) == Len(face_locations) = 0

\* _detect_faces_multiple_methods, lines 150-154 and 158-163: the call in its
\* try: its boxes are appended unless it raises
Extended(face_locations, outcome) ==
    IF outcome.raises THEN face_locations ELSE face_locations \o outcome.boxes

\* _detect_faces_multiple_methods, lines 167-179: the loop over the factors
\* from the i-th on, in its one try: an exception leaves the loop
RECURSIVE MultiScale(_, _)
MultiScale(detector, i) ==
    IF i > Len(UpsampleFactors) THEN [boxes |-> <<>>, calls |-> <<>>]
    ELSE LET upsample  == UpsampleFactors[i]
             locations == detector.upsample[upsample]
             rest      == MultiScale(detector, i + 1)
         IN  IF locations.raises
             THEN [boxes |-> <<>>, calls |-> <<[model |-> "hog", upsample |-> upsample]>>]
             ELSE IF locations.boxes # <<>>
             THEN [boxes |-> locations.boxes,
                   calls |-> <<[model |-> "hog", upsample |-> upsample]>>]
             ELSE [boxes |-> rest.boxes,
                   calls |-> <<[model |-> "hog", upsample |-> upsample]>> \o rest.calls]

\* the calls of lines 151 and 160: the configured model 'cnn' and the other
\* one, with the upsampling of the library's default
PrimaryCall == [model |-> "cnn", upsample |-> -1]
FallbackCall == [model |-> "hog", upsample |-> -1]

\* _detect_faces_multiple_methods(image_rgb): the boxes it returns and the
\* calls of the detector it made
detect_faces_multiple_methods(detector) ==
    LET after1 == Extended(<<>>, detector.primary)
        after2 == IF StillNone(after1) THEN Extended(after1, detector.fallback)
                  ELSE after1
        multi  == MultiScale(detector, 1)
        after3 == IF StillNone(after2) THEN after2 \o multi.boxes ELSE after2
    IN  [face_locations |-> IF Len(after3) > 1 THEN remove_duplicate_faces(after3)
                            ELSE after3,
         calls |-> <<PrimaryCall>>
                   \o (IF StillNone(after1) THEN <<FallbackCall>> ELSE <<>>)
                   \o (IF StillNone(after2) THEN multi.calls ELSE <<>>)]

\* the descriptor that the embedder gives for a box of the image
Encoding(face) == <<face[2], face[3]>>

\* face_recognition.face_encodings(image_rgb, face_locations), lines 311-316:
\* a descriptor for every box, or none on an image it cannot encode
FaceEncodingsAt(encodes, face_locations) ==
    IF encodes THEN [i \in DOMAIN face_locations |-> Encoding(face_locations[i])]
    ELSE <<>>

\* a choice of the first box
ArgFirst(face_sizes) == 1

\* np.argmax(face_sizes), line 325: the first of the greatest
ArgMax(face_sizes) ==
    CHOOSE i \in DOMAIN face_sizes :
        /\ \A j \in DOMAIN face_sizes : face_sizes[j] <= face_sizes[i]
        /\ \A j \in 1..(i - 1) : face_sizes[j] < face_sizes[i]

\* a test that finds faces in every image
NoFacesNever(face_locations) == FALSE

\* get_face_descriptor, line 305: len(face_locations) == 0
NoFaces(face_locations) == Len(face_locations) = 0

\* the exception of line 339: "Failed to analyze face: " and str(e)
Failed(text) ==
    [out |-> "Exception", message |-> <<"Failed to analyze face: ", text>>,
     descriptor |-> <<>>]

\* get_face_descriptor(image_input) for an image file that loads or not, the
\* service's initialized being is_initialized
get_face_descriptor(is_initialized, image_input) ==
    IF ~is_initialized
    THEN [out |-> "Exception",
          message |-> <<"", "Advanced face recognition service not initialized">>,
          descriptor |-> <<>>]
    ELSE IF ~image_input.loads THEN Failed("Could not load image")
    ELSE LET face_locations ==
                 detect_faces_multiple_methods(image_input.detector).face_locations
             face_encodings == FaceEncodingsAt(image_input.encodes, face_locations)
             face_sizes == [i \in DOMAIN face_locations |->
                               (face_locations[i][3] - face_locations[i][1])
                                   * (face_locations[i][2] - face_locations[i][4])]
         IN  IF NoFaces(face_locations) THEN Failed("No faces found in the image.")
             ELSE IF Len(face_encodings) = 0
             THEN Failed("Could not generate face encoding.")
             ELSE IF Len(face_locations) > 1
             THEN IF ArgMax(face_sizes) \in DOMAIN face_encodings
                  THEN [out |-> "ok", message |-> <<"", "">>,
                        descriptor |-> face_encodings[ArgMax(face_sizes)]]
                  ELSE Failed("IndexError")
             ELSE [out |-> "ok", message |-> <<"", "">>, descriptor |-> face_encodings[1]]

\* the image files
Images == [loads : BOOLEAN, encodes : BOOLEAN, detector : Detectors]

\* the arguments of the calls
DetectArgs == [op : {"detect_args"}, detector : Detectors]
DedupArgs == [op : {"dedup_args"}, face_locations : BoxLists]
DescriptorArgs == [op : {"descriptor_args"}, initialized : BOOLEAN, image_input : Images]

\* a client about to call one of the three
InitDetect ==
    /\ initialized = FALSE
    /\ heap = <<>>
    /\ event_indices = [e \in Events |-> 0]
    /\ th = [t \in ThreadIds |-> Idle]
    /\ descriptor_cache = [store |-> [k \in {} |-> 0], order |-> <<>>]
    /\ now = 0
    /\ last_used = <<>>
    /\ ret \in DetectArgs \cup DedupArgs \cup DescriptorArgs

\* _detect_faces_multiple_methods(image_rgb)
DetectCall ==
    /\ ret.op = "detect_args"
    /\ LET r == detect_faces_multiple_methods(ret.detector)
       IN  ret' = [op |-> "detect", detector |-> ret.detector,
                   face_locations |-> r.face_locations, calls |-> r.calls]
    /\ UNCHANGED <<storeVars, th, cacheVars>>

\* _remove_duplicate_faces(face_locations), and once more on what it returned
DedupCall ==
    /\ ret.op = "dedup_args"
    /\ LET unique_faces == remove_duplicate_faces(ret.face_locations)
       IN  ret' = [op |-> "dedup", face_locations |-> ret.face_locations,
                   unique_faces |-> unique_faces,
                   again |-> remove_duplicate_faces(unique_faces)]
    /\ UNCHANGED <<storeVars, th, cacheVars>>

\* get_face_descriptor(image_input)
DescriptorCall ==
    /\ ret.op = "descriptor_args"
    /\ LET r == get_face_descriptor(ret.initialized, ret.image_input)
       IN  ret' = [op |-> "descriptor", initialized |-> ret.initialized,
                   image_input |-> ret.image_input, out |-> r.out,
                   message |-> r.message, descriptor |-> r.descriptor]
    /\ UNCHANGED <<storeVars, th, cacheVars>>

NextDetect == DetectCall \/ DedupCall \/ DescriptorCall

SpecDetect == InitDetect /\ [][NextDetect]_vars

-----------------------------------------------------------------------------
(* Properties of detection and of the descriptor of one image *)

\* the boxes that get_face_descriptor works on
Located(image_input) == detect_faces_multiple_methods(image_input.detector).face_locations

\* why, if at all, the extraction of the image fails
Cause(image_input) ==
    IF ~image_input.loads THEN "load"
    ELSE IF Len(Located(image_input)) = 0 THEN "no_face"
    ELSE IF ~image_input.encodes THEN "no_encoding"
    ELSE "none"

\* C23: on an initialized service get_face_descriptor fails exactly when the
\* image did not load, no box was found, or no descriptor was produced for
\* the boxes found, and the message of the exception is the one of the
\* first of these that happened, the three messages being different
C23_FailuresDistinguished ==
    (ret.op = "descriptor" /\ ret.initialized)
    => /\ ret.out = "Exception" <=> Cause(ret.image_input) # "none"
       /\ ret.message[2] = "Could not load image"
              <=> Cause(ret.image_input) = "load"
       /\ ret.message[2] = "No faces found in the image."
              <=> Cause(ret.image_input) = "no_face"
       /\ ret.message[2] = "Could not generate face encoding."
              <=> Cause(ret.image_input) = "no_encoding"

\* a call failed because no box was found, though the image loaded
C23_Witness ==
    /\ ret.op = "descriptor"
    /\ ret.initialized
    /\ ret.image_input.loads
    /\ ret.image_input.encodes
    /\ ret.out = "Exception"
    /\ ret.message[2] = "No faces found in the image."

\* the calls of the detector in the order of the strategies
StrategyCalls ==
    <<PrimaryCall, FallbackCall>>
        \o [i \in DOMAIN UpsampleFactors |-> [model |-> "hog", upsample |-> UpsampleFactors[i]]]

\* what the k-th of them does on the image
OutcomeOf(detector, k) ==
    IF k = 1 THEN detector.primary
    ELSE IF k = 2 THEN detector.fallback
    ELSE detector.upsample[UpsampleFactors[k - 2]]

\* the call returned a box
Yielded(outcome) == ~outcome.raises /\ outcome.boxes # <<>>

\* C25: the calls of the detector are the first ones of the fixed order
\* (configured model, other model, upsampling 0, 1, 2), a call is made only
\* if none before it returned a box, and the boxes returned are all among
\* the boxes of one call
C25_StrategiesInOrderAsNeeded ==
    ret.op = "detect"
    => /\ Len(ret.calls) \in 1..Len(StrategyCalls)
       /\ ret.calls = SubSeq(StrategyCalls, 1, Len(ret.calls))
       /\ \A k \in DOMAIN ret.calls :
              \A j \in 1..(k - 1) : ~Yielded(OutcomeOf(ret.detector, j))
       /\ \E k \in DOMAIN ret.calls :
              \A i \in DOMAIN ret.face_locations :
                  \E b \in DOMAIN OutcomeOf(ret.detector, k).boxes :
                      OutcomeOf(ret.detector, k).boxes[b] = ret.face_locations[i]

\* both models and upsampling 0 found nothing, upsampling 1 found a box, and
\* upsampling 2 was not tried
C25_Witness ==
    /\ ret.op = "detect"
    /\ Len(ret.calls) = 4
    /\ ret.face_locations = <<B3>>

\* C26 (as claimed): a call of the detector that raises is followed by the
\* call of the next strategy, unless it was the last one
C26_FailureNeverSkipsAStrategy ==
    ret.op = "detect"
    => /\ ret.calls = SubSeq(StrategyCalls, 1, Len(ret.calls))
       /\ \A k \in DOMAIN ret.calls :
              OutcomeOf(ret.detector, k).raises
              => k = Len(StrategyCalls) \/ k < Len(ret.calls)

\* the boxes of the list at the indices of K, in the list's order
RECURSIVE Pick(_, _, _)
Pick(list, K, i) ==
    IF i = 0 THEN <<>>
    ELSE IF i \in K THEN Append(Pick(list, K, i - 1), list[i])
    ELSE Pick(list, K, i - 1)

\* K keeps a box exactly when it overlaps no box that K keeps before it by
\* more than 30% of the smaller of the two
KeepsByOverlap(list, K) ==
    \A j \in DOMAIN list :
        j \in K <=> \A i \in K : i < j =>
                        10 * OverlapArea(list[i], list[j])
                            <= 3 * Min(FaceArea(list[i]), FaceArea(list[j]))

C28_LargestFaceSelected ==
    (ret.op = "descriptor" /\ ret.out = "ok")
    => LET face_locations == Located(ret.image_input)
       IN  /\ \E i \in DOMAIN face_locations :
                  /\ \A j \in DOMAIN face_locations :
                         FaceArea(face_locations[j]) <= FaceArea(face_locations[i])
                  /\ ret.descriptor = Encoding(face_locations[i])
           /\ Len(face_locations) = 1 => ret.descriptor = Encoding(face_locations[1])

\* of two boxes the second, the larger one, gave the descriptor
C28_Witness ==
    /\ ret.op = "descriptor"
    /\ ret.out = "ok"
    /\ Located(ret.image_input) = <<B5, B4>>
    /\ ret.descriptor = Encoding(B4)

-----------------------------------------------------------------------------
(* The normalisation step of InsightFaceFaissService on its own: ingest    *)
(* and match on every vector of small integers, the zero vectors included. *)

\* the greatest magnitude of a component
MaxComponent == 2

\* the vectors given as embedding or as query_embedding
RawVectors == UNION {[1..n -> (0 - MaxComponent)..MaxComponent] : n \in 2..3}

\* ingest, lines 185-187: the vector that will be stored
IngestVector(embedding) == Normalize(AsArray(embedding))

\* match, lines 215-216: the vector that will be searched for
MatchVector(query_embedding) == Normalize(AsArray(query_embedding))

\* a client about to call ingest or match with a vector
InitNormalize ==
    /\ initialized = FALSE
    /\ heap = <<>>
    /\ event_indices = [e \in Events |-> 0]
    /\ th = [t \in ThreadIds |-> Idle]
    /\ descriptor_cache = [store |-> [k \in {} |-> 0], order |-> <<>>]
    /\ now = 0
    /\ last_used = <<>>
    /\ ret \in [op : {"ingest_vector_args", "match_vector_args"}, raw : RawVectors]

\* ingest(event_id, photo_id, embedding=raw) as far as line 187
IngestNormalize ==
    /\ ret.op = "ingest_vector_args"
    /\ ret' = [op |-> "ingest_vector", raw |-> ret.raw, vec |-> IngestVector(ret.raw)]
    /\ UNCHANGED <<storeVars, th, cacheVars>>

\* match(event_id, query_embedding=raw) as far as line 216
MatchNormalize ==
    /\ ret.op = "match_vector_args"
    /\ ret' = [op |-> "match_vector", raw |-> ret.raw, vec |-> MatchVector(ret.raw)]
    /\ UNCHANGED <<storeVars, th, cacheVars>>

NextNormalize == IngestNormalize \/ MatchNormalize

SpecNormalize == InitNormalize /\ [][NextNormalize]_vars

\* C24 (as claimed): the vector that ingest stores and the vector that match
\* searches for have norm 1, to the resolution of the fixed point (a unit
\* for every component), for every vector given
C24_UnitNorm ==
    ret.op \in {"ingest_vector", "match_vector"}
    => Abs(Norm(ret.vec) - Scale) <= Len(ret.vec)

=============================================================================
